---- MODULE Spec2Model ----
(***************************************************************************)
(* Model of the ai-agent service of IncidentResponseOrchestrator:          *)
(*   - llm/rate_limiter.py : SmartRateLimiter (token bucket + Retry-After) *)
(*   - agent/agent.py      : IncidentAgent.analyze and its pipeline        *)
(*   - llm/llm_provider.py : LLMProvider.generate and embed (retry loops)  *)
(*                                                                         *)
(* Time is counted in whole seconds.  Token counts are exact rationals:    *)
(* the stored value is tokens * TokenScale, so that the refill             *)
(* "elapsed * requests_per_minute / 60" is an integer.  Python computes    *)
(* with binary floating point; rounding of that arithmetic is not          *)
(* modelled.                                                               *)
(***************************************************************************)
EXTENDS Integers, Sequences, FiniteSets, TLC

VARIABLES
    \* ---- SmartRateLimiter (rate_limiter.py) ----
    rpm,                \* self.rpm, a rational <<numerator, denominator>>
    enabled,            \* self.enabled
    burst_size,         \* the burst_size argument of __init__ (NoBurst: None)
    max_tokens,         \* self.max_tokens (whole tokens)
    tokens,             \* self._state.tokens * TokenScale
    last_refill,        \* self._state.last_refill
    retry_after_until,  \* self._state.retry_after_until, NoDeadline for None
    mono,               \* time.monotonic()
    acq,                \* the caller of acquire(): position and locals
    hist,               \* history of the limiter (observation only)
    \* ---- IncidentAgent (agent.py) ----
    wall,               \* time.time()
    alert_cache,        \* self._alert_cache: cache key -> time of processing
    an,                 \* the caller of analyze(): position and locals
    executed,           \* what the current call handed to subprocess.run
    streak,             \* history of the dedup cache (observation only)
    callers,            \* threads calling analyze() at once: position, locals
    stamps,             \* cache key -> time of its latest full processing (observation only)
    \* ---- LLMProvider (llm_provider.py) ----
    workers,            \* the threads calling generate/embed: position, locals
    granted             \* acquire() calls of the workers that returned True

\* the fields __init__ sets once
cfg == <<rpm, enabled, burst_size, max_tokens>>

\* the state of the limiter
limiter == <<rpm, enabled, burst_size, max_tokens, tokens, last_refill,
             retry_after_until, mono, acq, hist>>

\* the state of the agent
agent == <<wall, alert_cache, an, executed, streak, callers, stamps>>

\* the threads that call analyze() concurrently
concurrent == <<callers, stamps>>

\* the state of the callers of the provider
provider == <<workers, granted>>

vars == <<limiter, agent, provider>>

Min(a, b) == IF a <= b THEN a ELSE b

Max(a, b) == IF a >= b THEN a ELSE b

(***************************************************************************)
(* Bounds of the model.                                                    *)
(***************************************************************************)
\* Number of clock ticks the limiter is observed for.
MaxTicks == 4

\* The clock advances in steps of TickLen seconds; every requests-per-minute
\* value below yields a whole number of TickLen steps per token.
TickLen == 4 * 5

Horizon == MaxTicks * TickLen

(***************************************************************************)
(* SmartRateLimiter                                                        *)
(***************************************************************************)
NoDeadline == 0 - 1

NoTimeout == 0 - 1

NoBurst == 0

NoValue == 0 - 1

\* requests_per_minute values the limiter is constructed with: 3.0, 1.5, 0.75
RPMS == {<<3, 1>>, <<3, 2>>, <<3, 4>>}

\* burst_size argument: None (NoBurst) or an explicit size
BurstSizes == {NoBurst, 2}

\* timeout argument of acquire(): None, 0 s, 40 s
Timeouts == {NoTimeout, 0, 40}

\* retry_after argument of report_rate_limit_error(): None (0) or seconds
Hints == {0, 20, 40}

\* Seconds in a minute: tokens_per_second = requests_per_minute / 60.0
SecondsPerMinute == 60

\* Default backoff of report_rate_limit_error when no hint is given
DefaultBackoff == 60

\* acquire() sleeps min(wait_time, 1.0)
SleepChunk == 1

\* tokens are stored multiplied by TokenScale(r); one token is TokenScale(r)
TokenScale(r) == SecondsPerMinute * r[2]

\* tokens_per_second * TokenScale(r)
RefillPerSecond(r) == r[1]

\* int(requests_per_minute): truncation (the value is positive)
IntOf(r) == r[1] \div r[2]

\* round(requests_per_minute): Python's round-half-to-even
RoundOf(r) ==
    LET q == r[1] \div r[2]
        m == r[1] % r[2]
    IN  IF 2 * m < r[2] THEN q
        ELSE IF 2 * m > r[2] THEN q + 1
        ELSE IF q % 2 = 0 THEN q ELSE q + 1

MaxTokensRound(r, burst) == IF burst # NoBurst THEN burst ELSE Max(1, RoundOf(r))

\* __init__: self.max_tokens = burst_size if burst_size else max(1, int(rpm))
MaxTokensInit(r, burst) == IF burst # NoBurst THEN burst ELSE Max(1, IntOf(r))

RefillNoCap(tok, elapsed) == tok + elapsed * RefillPerSecond(rpm)

\* min(self.max_tokens, tokens + elapsed * self.tokens_per_second)
Refill(tok, elapsed) ==
    Min(max_tokens * TokenScale(rpm), tok + elapsed * RefillPerSecond(rpm))

\* "if self._state.retry_after_until and now < self._state.retry_after_until"
InCooldown(until, now) == until # NoDeadline /\ until # 0 /\ now < until

TryAcquireConsumeFirst(tok, last, until, now) ==
    IF InCooldown(until, now)
    THEN [tokens |-> tok, last_refill |-> last, wait |-> until - now]
    ELSE LET t == Refill(tok, now - last) - TokenScale(rpm)
         IN  IF t >= 0
             THEN [tokens |-> t, last_refill |-> now, wait |-> 0]
             ELSE [tokens |-> t, last_refill |-> now,
                   wait |-> (0 - t) \div RefillPerSecond(rpm)]

TryAcquireStaleRefill(tok, last, until, now) ==
    IF InCooldown(until, now)
    THEN [tokens |-> tok, last_refill |-> last, wait |-> until - now]
    ELSE LET t == Refill(tok, now - last)
         IN  IF t >= TokenScale(rpm)
             THEN [tokens |-> t - TokenScale(rpm), last_refill |-> last, wait |-> 0]
             ELSE [tokens |-> t, last_refill |-> now,
                   wait |-> (TokenScale(rpm) - t) \div RefillPerSecond(rpm)]

TryAcquireNoCooldown(tok, last, until, now) ==
    LET t == Refill(tok, now - last)
    IN  IF t >= TokenScale(rpm)
        THEN [tokens |-> t - TokenScale(rpm), last_refill |-> now, wait |-> 0]
        ELSE [tokens |-> t, last_refill |-> now,
              wait |-> (TokenScale(rpm) - t) \div RefillPerSecond(rpm)]

\* _try_acquire: the new tokens and last_refill, and the returned wait time
\* (0 when a token was taken).  The division is exact on the model's time grid.
TryAcquire(tok, last, until, now) ==
    IF InCooldown(until, now)
    THEN [tokens |-> tok, last_refill |-> last, wait |-> until - now]
    ELSE LET t == Refill(tok, now - last)
         IN  IF t >= TokenScale(rpm)
             THEN [tokens |-> t - TokenScale(rpm), last_refill |-> now, wait |-> 0]
             ELSE [tokens |-> t, last_refill |-> now,
                   wait |-> (TokenScale(rpm) - t) \div RefillPerSecond(rpm)]

\* locked: the thread in acquire() holds self._lock between two steps (every
\* with-block of the limiter is one step, and waits for the lock)
AcqIdle == [pc |-> "idle", start_time |-> 0, timeout |-> NoTimeout, wake |-> 0,
            result |-> FALSE, wait |-> 0, took |-> 0, at |-> 0,
            pre_tokens |-> 0, pre_last |-> 0, pre_until |-> NoDeadline,
            locked |-> FALSE]

\* pristine: nothing but acquire() has run and no time has passed since
\* construction; n_true: acquire() calls that returned True while pristine;
\* report_deadline: t + h of the most recent report_rate_limit_error(h) when
\* it carried a hint h > 0 (0 otherwise);
\* avail: the value available_tokens returned, while no step followed the read
\* exhausted_at: when acquire() last took a token and left less than one,
\* while no cooldown deadline has ever been set
HistInit == [pristine |-> TRUE, n_true |-> 0, report_deadline |-> 0,
             avail |-> NoValue, exhausted_at |-> NoValue]

Dirty(h) == [h EXCEPT !.pristine = FALSE, !.n_true = 0, !.avail = NoValue]

Throttled(h) == [Dirty(h) EXCEPT !.exhausted_at = NoValue]

InitLimiter ==
    /\ rpm \in RPMS
    /\ enabled \in BOOLEAN
    /\ burst_size \in BurstSizes
    /\ max_tokens = MaxTokensInit(rpm, burst_size)
    /\ tokens = max_tokens * TokenScale(rpm)
    /\ last_refill = 0
    /\ retry_after_until = NoDeadline
    /\ mono = 0
    /\ acq = AcqIdle
    /\ hist = HistInit

\* acquire(timeout): entry.  A disabled limiter returns True at once.
AcquireCall(to) ==
    /\ acq.pc = "idle"
    /\ IF ~enabled
       THEN acq' = [AcqIdle EXCEPT !.pc = "done", !.result = TRUE,
                                   !.timeout = to, !.at = mono]
       ELSE acq' = [AcqIdle EXCEPT !.pc = "try", !.start_time = mono,
                                   !.timeout = to]
    /\ UNCHANGED <<agent, provider, cfg, tokens, last_refill,
                   retry_after_until, mono, hist>>

\* an iteration that sleeps for the whole wait_time inside the with block
AcquireTrySleepLocked ==
    /\ acq.pc = "try"
    /\ LET r == TryAcquire(tokens, last_refill, retry_after_until, mono)
           taken == IF InCooldown(retry_after_until, mono) THEN 0
                    ELSE (Refill(tokens, mono - last_refill) - r.tokens)
                             \div TokenScale(rpm)
           snap == [acq EXCEPT !.took = @ + taken, !.at = mono, !.wait = r.wait,
                               !.pre_tokens = tokens, !.pre_last = last_refill,
                               !.pre_until = retry_after_until]
       IN  /\ tokens' = r.tokens
           /\ last_refill' = r.last_refill
           /\ IF r.wait = 0
              THEN /\ acq' = [snap EXCEPT !.pc = "done", !.result = TRUE]
                   /\ hist' = [hist EXCEPT !.avail = NoValue,
                                  !.n_true = IF hist.pristine THEN @ + 1 ELSE 0,
                                  !.exhausted_at =
                                      IF retry_after_until = NoDeadline
                                         /\ r.tokens < TokenScale(rpm)
                                      THEN mono ELSE NoValue]
              ELSE IF acq.timeout # NoTimeout
                      /\ (mono - acq.start_time) + r.wait > acq.timeout
              THEN /\ acq' = [snap EXCEPT !.pc = "done", !.result = FALSE]
                   /\ hist' = [hist EXCEPT !.avail = NoValue]
              ELSE /\ acq' = [acq EXCEPT !.pc = "sleep", !.took = @ + taken,
                                         !.wake = mono + r.wait,
                                         !.locked = TRUE]
                   /\ hist' = [hist EXCEPT !.avail = NoValue]
    /\ UNCHANGED <<agent, provider, cfg, retry_after_until, mono>>

\* One iteration of the loop of acquire(): _try_acquire under the lock, then
\* return True, return False on timeout, or start sleeping.
AcquireTry ==
    /\ acq.pc = "try"
    /\ ~acq.locked
    /\ LET r == TryAcquire(tokens, last_refill, retry_after_until, mono)
           taken == IF InCooldown(retry_after_until, mono) THEN 0
                    ELSE (Refill(tokens, mono - last_refill) - r.tokens)
                             \div TokenScale(rpm)
           snap == [acq EXCEPT !.took = @ + taken, !.at = mono, !.wait = r.wait,
                               !.pre_tokens = tokens, !.pre_last = last_refill,
                               !.pre_until = retry_after_until]
       IN  /\ tokens' = r.tokens
           /\ last_refill' = r.last_refill
           /\ IF r.wait = 0
              THEN /\ acq' = [snap EXCEPT !.pc = "done", !.result = TRUE]
                   /\ hist' = [hist EXCEPT !.avail = NoValue,
                                  !.n_true = IF hist.pristine THEN @ + 1 ELSE 0,
                                  !.exhausted_at =
                                      IF retry_after_until = NoDeadline
                                         /\ r.tokens < TokenScale(rpm)
                                      THEN mono ELSE NoValue]
              ELSE IF acq.timeout # NoTimeout
                      /\ (mono - acq.start_time) + r.wait > acq.timeout
              THEN /\ acq' = [snap EXCEPT !.pc = "done", !.result = FALSE]
                   /\ hist' = [hist EXCEPT !.avail = NoValue]
              ELSE /\ acq' = [acq EXCEPT !.pc = "sleep", !.took = @ + taken,
                                         !.wake = mono + Min(r.wait, SleepChunk)]
                   /\ hist' = [hist EXCEPT !.avail = NoValue]
    /\ UNCHANGED <<agent, provider, cfg, retry_after_until, mono>>

\* time.sleep(min(wait_time, 1.0)) has elapsed: back to the top of the loop
AcquireWake ==
    /\ acq.pc = "sleep"
    /\ mono >= acq.wake
    /\ acq' = [acq EXCEPT !.pc = "try", !.wake = 0]
    /\ UNCHANGED <<agent, provider, cfg, tokens, last_refill,
                   retry_after_until, mono, hist>>

\* the caller takes the returned value
AcquireReturn ==
    /\ acq.pc = "done"
    /\ acq' = AcqIdle
    /\ UNCHANGED <<agent, provider, cfg, tokens, last_refill,
                   retry_after_until, mono, hist>>

\* report_rate_limit_error(retry_after), h = 0 standing for None (falsy)
ReportWait(h) == IF h # NoValue /\ h # 0 THEN h ELSE DefaultBackoff

ReportRateLimitError(h) ==
    /\ enabled => ~acq.locked
    /\ IF ~enabled
       THEN UNCHANGED <<tokens, retry_after_until, hist>>
       ELSE /\ retry_after_until' = mono + ReportWait(h)
            /\ tokens' = 0
            /\ hist' = [Throttled(hist) EXCEPT
                           !.report_deadline = IF h # 0 THEN mono + h ELSE 0]
    /\ UNCHANGED <<agent, provider, cfg, last_refill, mono, acq>>

(***************************************************************************)
(* update_from_headers.  A header value is absent, unparsable ("bad"), a   *)
(* number of seconds, an HTTP-date v seconds ahead of time.time() ("date"),*)
(* or, for the reset headers, an epoch timestamp v seconds ahead ("epoch").*)
(* NoValue stands for None.                                                *)
(***************************************************************************)
Absent == [k |-> "absent", v |-> 0]

Bad == [k |-> "bad", v |-> 0]

Secs(n) == [k |-> "secs", v |-> n]

Date(d) == [k |-> "date", v |-> d]

Epoch(r) == [k |-> "epoch", v |-> r]

NoHeaders == [RA |-> Absent, ra |-> Absent, XRA |-> Absent, xra |-> Absent,
              RESET |-> Absent, reset |-> Absent]

\* response headers the provider is observed to send
HeaderSets ==
    { NoHeaders,
      [NoHeaders EXCEPT !.RA = Secs(20)],
      [NoHeaders EXCEPT !.ra = Date(40)],
      [NoHeaders EXCEPT !.XRA = Secs(40)],
      [NoHeaders EXCEPT !.xra = Secs(20)],
      [NoHeaders EXCEPT !.RA = Bad, !.XRA = Secs(20)],
      [NoHeaders EXCEPT !.RA = Bad, !.RESET = Epoch(40)],
      [NoHeaders EXCEPT !.RA = Secs(0), !.reset = Epoch(20)],
      [NoHeaders EXCEPT !.RA = Secs(40), !.RESET = Epoch(20)],
      [NoHeaders EXCEPT !.RESET = Bad, !.reset = Epoch(20)],
      [NoHeaders EXCEPT !.RESET = Epoch(0)] }

\* _parse_retry_after: float(value), else an HTTP-date, else None
ParseRetryAfter(x) ==
    IF x.k = "secs" THEN x.v
    ELSE IF x.k = "date" THEN Max(0, x.v)
    ELSE NoValue

\* the if/elif chain over 'Retry-After', 'retry-after', 'X-Retry-After',
\* 'x-retry-after': the first key present is parsed, the others are not read
RetryAfterOf(h) ==
    IF h.RA.k # "absent" THEN ParseRetryAfter(h.RA)
    ELSE IF h.ra.k # "absent" THEN ParseRetryAfter(h.ra)
    ELSE IF h.XRA.k # "absent" THEN ParseRetryAfter(h.XRA)
    ELSE IF h.xra.k # "absent" THEN ParseRetryAfter(h.xra)
    ELSE NoValue

\* headers.get('X-RateLimit-Reset') or headers.get('x-ratelimit-reset')
ResetHeaderOf(h) == IF h.RESET.k # "absent" THEN h.RESET ELSE h.reset

\* the value of retry_after at line 154 (NoValue for None); a reset header
\* that is a small number of seconds is a timestamp long past
ResolveRetryAfter(h) ==
    LET ra == RetryAfterOf(h)
        rh == ResetHeaderOf(h)
    IN  IF rh.k # "absent" /\ (ra = NoValue \/ ra = 0)
        THEN IF rh.k = "epoch" THEN Max(0, rh.v)
             ELSE IF rh.k = "secs" THEN 0
             ELSE ra
        ELSE ra

\* update_from_headers that never moves an existing deadline to an earlier time
UpdateFromHeadersExtendOnly(h) ==
    /\ LET ra == ResolveRetryAfter(h)
       IN  IF enabled /\ ra # NoValue /\ ra > 0
           THEN /\ ~acq.locked
                /\ retry_after_until' = Max(retry_after_until, mono + ra)
                /\ hist' = Throttled(hist)
           ELSE /\ hist' = [hist EXCEPT !.avail = NoValue]
                /\ UNCHANGED retry_after_until
    /\ UNCHANGED <<agent, provider, cfg, tokens, last_refill, mono, acq>>

UpdateFromHeaders(h) ==
    /\ LET ra == ResolveRetryAfter(h)
       IN  IF enabled /\ ra # NoValue /\ ra > 0
           THEN /\ ~acq.locked
                /\ retry_after_until' = mono + ra
                /\ hist' = Throttled(hist)
           ELSE /\ hist' = [hist EXCEPT !.avail = NoValue]
                /\ UNCHANGED retry_after_until
    /\ UNCHANGED <<agent, provider, cfg, tokens, last_refill, mono, acq>>

\* the available_tokens property: a read under the lock
AvailableTokens ==
    /\ ~acq.locked
    /\ hist' = [hist EXCEPT !.avail = Refill(tokens, mono - last_refill)]
    /\ UNCHANGED <<agent, provider, cfg, tokens, last_refill,
                   retry_after_until, mono, acq>>

Tick ==
    /\ mono + TickLen <= Horizon
    /\ mono' = mono + TickLen
    /\ hist' = Dirty(hist)
    /\ UNCHANGED <<agent, provider, cfg, tokens, last_refill,
                   retry_after_until, acq>>

NextLimiter ==
    \/ \E to \in Timeouts : AcquireCall(to)
    \/ AcquireTry
    \/ AcquireWake
    \/ AcquireReturn
    \/ \E h \in Hints : ReportRateLimitError(h)
    \/ \E h \in HeaderSets : UpdateFromHeaders(h)
    \/ AvailableTokens
    \/ Tick

(***************************************************************************)
(* Text.  A Python str is a sequence of pieces; where the code looks at    *)
(* characters (prefix and substring tests, strip, split, re.sub, shlex)    *)
(* every piece is one character.                                           *)
(***************************************************************************)
SetMin(S) == CHOOSE x \in S : \A y \in S : x <= y

SetMax(S) == CHOOSE x \in S : \A y \in S : x >= y

\* s[:n]
Take(s, n) == SubSeq(s, 1, Min(n, Len(s)))

\* s.startswith(p)
StartsWith(s, p) == Len(s) >= Len(p) /\ SubSeq(s, 1, Len(p)) = p

\* p in s
Contains(s, p) ==
    \E i \in 1..(Len(s) - Len(p) + 1) : SubSeq(s, i, i + Len(p) - 1) = p

Whitespace == {" ", "\t", "\n"}

\* s.strip()
Strip(s) ==
    LET keep == {i \in 1..Len(s) : s[i] \notin Whitespace}
    IN  IF keep = {} THEN <<>> ELSE SubSeq(s, SetMin(keep), SetMax(keep))

\* s.split(c) for a one-character separator c
RECURSIVE SplitOn(_, _)
SplitOn(s, c) ==
    LET at == {i \in 1..Len(s) : s[i] = c}
    IN  IF at = {} THEN <<s>>
        ELSE <<SubSeq(s, 1, SetMin(at) - 1)>>
                 \o SplitOn(SubSeq(s, SetMin(at) + 1, Len(s)), c)

UpperCase == <<"A", "B", "C", "D", "E", "F", "G", "H", "I", "J", "K", "L", "M", "N", "O", "P", "Q", "R", "S", "T", "U", "V", "W", "X", "Y", "Z">>

LowerCase == <<"a", "b", "c", "d", "e", "f", "g", "h", "i", "j", "k", "l", "m", "n", "o", "p", "q", "r", "s", "t", "u", "v", "w", "x", "y", "z">>

\* s.lower()
Lower(s) ==
    [i \in 1..Len(s) |->
        IF \E k \in 1..Len(UpperCase) : UpperCase[k] = s[i]
        THEN LowerCase[CHOOSE k \in 1..Len(UpperCase) : UpperCase[k] = s[i]]
        ELSE s[i]]

\* "\n".join / ", ".join style concatenation of a list of texts
RECURSIVE Concat(_)
Concat(ss) == IF ss = <<>> THEN <<>> ELSE Head(ss) \o Concat(Tail(ss))

(***************************************************************************)
(* Word splitting, as shlex.split and /bin/sh do it for the commands of    *)
(* the model: a quote character opens a quoted span that the next          *)
(* occurrence of the same character closes; outside quoted spans           *)
(* whitespace ends a word and, for /bin/sh, a control operator ends a      *)
(* simple command; a word is made of the characters between two such       *)
(* delimiters without the quote characters.  Backslash escapes, expansions *)
(* and redirections are not modelled (no command of the model uses them).  *)
(***************************************************************************)
Quotes == {"\"", "'"}

\* the k-th smallest element of a set of numbers
Nth(S, k) == CHOOSE x \in S : Cardinality({y \in S : y <= x}) = k

\* the elements of a set of numbers in increasing order
Sorted(S) == [k \in 1..Cardinality(S) |-> Nth(S, k)]

\* the quoted spans <<open, close>> of s from position from on;
\* ok = FALSE: the last quote is not closed
RECURSIVE QuoteSpans(_, _)
QuoteSpans(s, from) ==
    LET opens == {i \in from..Len(s) : s[i] \in Quotes}
    IN  IF opens = {} THEN [ok |-> TRUE, spans |-> {}]
        ELSE LET open == SetMin(opens)
                 closes == {i \in (open + 1)..Len(s) : s[i] = s[open]}
             IN  IF closes = {} THEN [ok |-> FALSE, spans |-> {}]
                 ELSE LET rest == QuoteSpans(s, SetMin(closes) + 1)
                      IN  [ok |-> rest.ok,
                           spans |-> {<<open, SetMin(closes)>>} \cup rest.spans]

\* the positions of s that end a word or (marked TRUE) a command; ops: the
\* characters that end a command
Delimiters(s, spans, ops) ==
    LET quoted == {i \in 1..Len(s) : \E sp \in spans : sp[1] <= i /\ i <= sp[2]}
    IN  [i \in {j \in 1..Len(s) : j \notin quoted /\ s[j] \in Whitespace \cup ops}
            |-> s[i] \in ops]

\* the word that starts at position b: the characters up to the next
\* delimiter, quote characters left out
WordAt(s, b, marks, delims) ==
    LET ends == {j \in b..Len(s) : j \in delims}
        e == IF ends = {} THEN Len(s) ELSE SetMin(ends) - 1
        keep == Sorted({j \in b..e : j \notin marks})
    IN  [k \in 1..Len(keep) |-> s[keep[k]]]

\* the commands read at the end of the text, each as its list of words;
\* ok = FALSE: a quote is open
Scan(s, ops) ==
    LET qs == QuoteSpans(s, 1)
        marks == {sp[1] : sp \in qs.spans} \cup {sp[2] : sp \in qs.spans}
        delim == Delimiters(s, qs.spans, ops)
        delims == DOMAIN delim
        breaks == {i \in delims : delim[i]}
        starts == {i \in 1..Len(s) :
                      i \notin delims /\ (i = 1 \/ (i - 1) \in delims)}
        CommandOf(b) == Cardinality({o \in breaks : o < b})
        used == Sorted({CommandOf(b) : b \in starts})
        WordsOf(c) == Sorted({b \in starts : CommandOf(b) = c})
    IN  IF ~qs.ok THEN [ok |-> FALSE, cmds |-> <<>>]
        ELSE [ok |-> TRUE,
              cmds |-> [k \in 1..Len(used) |->
                          [n \in 1..Len(WordsOf(used[k])) |->
                              WordAt(s, WordsOf(used[k])[n], marks, delims)]]]

\* shlex.split(cmd): ok = FALSE stands for ValueError("No closing quotation")
ShlexSplit(cmd) ==
    LET r == Scan(cmd, {})
    IN  [ok |-> r.ok, argv |-> IF r.cmds = <<>> THEN <<>> ELSE r.cmds[1]]

ShellOperators == {"|", ";", "&"}

\* the simple commands /bin/sh -c cmd launches, each as its argument list
\* (none when the text has a syntax error)
ShellCommands(cmd) == Scan(cmd, ShellOperators).cmds

(***************************************************************************)
(* IncidentAgent: constants and data                                       *)
(***************************************************************************)
\* self._cache_ttl
CacheTTL == 300

\* ALLOWED_COMMANDS
ALLOWED_COMMANDS ==
    << <<"k", "u", "b", "e", "c", "t", "l", " ", "g", "e", "t">>, <<"k", "u", "b", "e", "c", "t", "l", " ", "d", "e", "s", "c", "r", "i", "b", "e">>, <<"k", "u", "b", "e", "c", "t", "l", " ", "l", "o", "g", "s">>, <<"k", "u", "b", "e", "c", "t", "l", " ", "t", "o", "p">> >>

\* IGNORED_SERVICE_PATTERNS
IGNORED_SERVICE_PATTERNS ==
    << <<"i", "n", "i", "t", "-", "r", "u", "n", "b", "o", "o", "k", "s">>, <<"k", "u", "b", "e", "-", "s", "t", "a", "t", "e", "-", "m", "e", "t", "r", "i", "c", "s">>, <<"o", "r", "c", "h", "e", "s", "t", "r", "a", "t", "o", "r", "-">>, <<"p", "r", "o", "m", "e", "t", "h", "e", "u", "s">>,
       <<"a", "l", "e", "r", "t", "m", "a", "n", "a", "g", "e", "r">>, <<"g", "r", "a", "f", "a", "n", "a">>, <<"l", "o", "k", "i">>, <<"p", "r", "o", "m", "t", "a", "i", "l">>, <<"q", "d", "r", "a", "n", "t">>, <<"m", "i", "n", "i", "o">>,
       <<"k", "a", "f", "k", "a">> >>

\* the backquote character
Backquote == "BACKQUOTE"

\* the characters re.sub removes in _sanitize_input: ; | & $ and the backquote
InjectionChars == {";", "|", "&", "$", Backquote}

\* sanitized[:500]
SanitizeLimit == 500

\* commands[:5]
CommandLimit == 5

\* items[:20]
DiscoveryLimit == 20

\* str(e) of the exceptions the model raises; NoExc: nothing was raised
NoExc == "no exception"

ProviderError == "provider error"

LLMCallFailed == "LLM call failed after max_retries attempts: provider error"

SearchError == "vector search failed"

AttributeError == "AttributeError"

TypeError == "TypeError"

ValueError == "ValueError"

KubectlMissing == "[Errno 2] No such file or directory: 'kubectl'"

\* what a step hands back: a value, or the exception that leaves it
Value(v) == [exc |-> NoExc, val |-> v]

Raise(e) == [exc |-> e, val |-> <<>>]

(***************************************************************************)
(* JSON values as json.loads returns them: t is the Python type, v the     *)
(* content (a dict is a function from keys to values, a number is counted  *)
(* in hundredths).  JFail stands for a method of _extract_json that raised.*)
(***************************************************************************)
JStr(s) == [t |-> "str", v |-> s]

JNum(n) == [t |-> "num", v |-> n]

JNull == [t |-> "null", v |-> 0]

JList(items) == [t |-> "list", v |-> items]

JDict(f) == [t |-> "dict", v |-> f]

JFail == [t |-> "fail", v |-> 0]

EmptyDict == JDict([k \in {} |-> JNull])

\* data.get(key, default) on a dict
Get(d, key, default) == IF key \in DOMAIN d.v THEN d.v[key] ELSE default

\* bool(value)
Truthy(j) ==
    CASE j.t = "dict" -> DOMAIN j.v # {}
      [] j.t = "list" -> j.v # <<>>
      [] j.t = "str" -> j.v # <<>>
      [] j.t = "num" -> j.v # 0
      [] OTHER -> FALSE

(***************************************************************************)
(* An LLM response text is described by what each extraction method of     *)
(* _extract_json makes of it: direct parse, fenced code block, outermost   *)
(* brace span, outermost bracket span.  raw is the text itself.            *)
(***************************************************************************)
EmptyText == [empty |-> TRUE, raw |-> <<>>, methods |-> <<JFail, JFail, JFail, JFail>>]

\* the text is exactly one JSON document
CleanJson(j) ==
    [empty |-> FALSE, raw |-> <<"json">>,
     methods |-> <<j, JFail, IF j.t = "dict" THEN j ELSE JFail,
                   IF j.t = "list" THEN j ELSE JFail>>]

\* a JSON document inside a code fence, surrounded by prose
FencedJson(j) ==
    [empty |-> FALSE, raw |-> <<"prose, a fenced json block, prose">>,
     methods |-> <<JFail, j, IF j.t = "dict" THEN j ELSE JFail,
                   IF j.t = "list" THEN j ELSE JFail>>]

\* a JSON object preceded and followed by prose
ProseJson(j) ==
    [empty |-> FALSE, raw |-> <<"prose { ... } prose">>,
     methods |-> <<JFail, JFail, j, JFail>>]

\* prose without any JSON
Garbage ==
    [empty |-> FALSE, raw |-> <<"I cannot help with that.">>,
     methods |-> <<JFail, JFail, JFail, JFail>>]

\* _parse_decision quotes llm_output[:500] in a parse error
RawLimit == 500

\* prose without any JSON, one character longer than a parse error quotes
LongGarbage ==
    [empty |-> FALSE, raw |-> [i \in 1..(RawLimit + 1) |-> "x"],
     methods |-> <<JFail, JFail, JFail, JFail>>]

\* _extract_json: the first method that does not raise, else {}
ExtractJson(text) ==
    IF text.empty THEN EmptyDict
    ELSE LET good == {i \in 1..Len(text.methods) : text.methods[i].t # "fail"}
         IN  IF good = {} THEN EmptyDict ELSE text.methods[SetMin(good)]

(***************************************************************************)
(* Events (orchestrator_pb2.DomainEvent)                                   *)
(***************************************************************************)
NoNamespace == [present |-> FALSE, value |-> <<>>]

Namespace(ns) == [present |-> TRUE, value |-> ns]

Event(id, service, domain, ns) ==
    [event_id |-> id, service_name |-> service, domain |-> domain,
     namespace |-> ns, raw_payload |-> <<"alert payload">>]

WebEvent == Event("evt-web-1", <<"w", "e", "b">>, <<"k", "8", "s">>, NoNamespace)

\* the same service and domain again, with a namespace that needs sanitizing
WebEventProd == Event("evt-web-2", <<"w", "e", "b">>, <<"k", "8", "s">>, Namespace(<<"p", "r", ";", "o", "d", "|">>))

\* names that contain an ignored pattern, one of them not at the front
LokiEvent == Event("evt-loki", <<"o", "p", "s", "-", "l", "o", "k", "i">>, <<"k", "8", "s">>, NoNamespace)

PrometheusEvent == Event("evt-prom", <<"p", "r", "o", "m", "e", "t", "h", "e", "u", "s">>, <<"i", "n", "f", "r", "a">>, Namespace(<<"m", "o", "n", "i", "t", "o", "r", "i", "n", "g">>))

\* two different (service, domain) pairs that yield the same cache key
ColonServiceEvent == Event("evt-ab-c", <<"a", ":", "b">>, <<"c">>, NoNamespace)

ColonDomainEvent == Event("evt-a-bc", <<"a">>, <<"b", ":", "c">>, NoNamespace)

NoEvent == Event("", <<>>, <<>>, NoNamespace)

Pair(e) == <<e.service_name, e.domain>>

(***************************************************************************)
(* Decisions (orchestrator_pb2.Decision).  confidence_score is counted in  *)
(* hundredths; decision_id and action_id are the numbers of the uuid4()    *)
(* calls of the current analyze call.                                      *)
(***************************************************************************)
Decision(id, e, analysis, confidence, actions) ==
    [decision_id |-> id, incident_id |-> e.event_id, analysis |-> analysis,
     confidence_score |-> confidence, proposed_actions |-> actions]

\* _cached_decision
CachedDecision(e) ==
    Decision(1, e, <<"Alert for ">> \o e.service_name
                       \o <<" was recently processed. Skipping.">>, 0, <<>>)

\* _ignored_decision
IgnoredDecision(e) ==
    Decision(1, e, <<"Alert for ">> \o e.service_name
                       \o <<" ignored (system component).">>, 0, <<>>)

\* _fallback_decision
FallbackDecision(e, error_msg) ==
    Decision(1, e, <<"Agent failed: ", error_msg>>, 0, <<>>)

(***************************************************************************)
(* LLM response texts lexeme by lexeme, for _extract_json on its own: a    *)
(* piece is a brace, a bracket, a comma, a colon, a whitespace character,  *)
(* a string or number literal, a code fence, the word json, or a word of   *)
(* prose.  Braces and fences inside string literals are not modelled.      *)
(***************************************************************************)
\* three backquotes
Fence == "FENCE"

\* what json.loads makes of a literal
Literals ==
    ("\"a\"" :> JStr(<<"a">>)) @@ ("\"b\"" :> JStr(<<"b">>))
        @@ ("1" :> JNum(100)) @@ ("null" :> JNull)

\* the first position from i on that holds no whitespace
SkipWhitespace(s, i) ==
    LET at == {k \in i..Len(s) : s[k] \notin Whitespace}
    IN  IF at = {} THEN Len(s) + 1 ELSE SetMin(at)

NoParse == [ok |-> FALSE, val |-> JFail, next |-> 0]

\* the JSON scanner: the value that starts at lexeme i and the position
\* after it; ParseElements and ParseMembers read on after "[" and "{"
RECURSIVE ParseValue(_, _)
RECURSIVE ParseElements(_, _, _)
RECURSIVE ParseMembers(_, _, _)
ParseValue(s, i) ==
    LET k == SkipWhitespace(s, i)
    IN  IF k > Len(s) THEN NoParse
        ELSE IF s[k] \in DOMAIN Literals
        THEN [ok |-> TRUE, val |-> Literals[s[k]], next |-> k + 1]
        ELSE IF s[k] = "["
        THEN LET c == SkipWhitespace(s, k + 1)
             IN  IF c <= Len(s) /\ s[c] = "]"
                 THEN [ok |-> TRUE, val |-> JList(<<>>), next |-> c + 1]
                 ELSE ParseElements(s, k + 1, <<>>)
        ELSE IF s[k] = "{"
        THEN LET c == SkipWhitespace(s, k + 1)
             IN  IF c <= Len(s) /\ s[c] = "}"
                 THEN [ok |-> TRUE, val |-> EmptyDict, next |-> c + 1]
                 ELSE ParseMembers(s, k + 1, EmptyDict)
        ELSE NoParse

ParseElements(s, i, items) ==
    LET v == ParseValue(s, i)
        k == SkipWhitespace(s, v.next)
    IN  IF ~v.ok \/ k > Len(s) THEN NoParse
        ELSE IF s[k] = ","
        THEN ParseElements(s, k + 1, Append(items, v.val))
        ELSE IF s[k] = "]"
        THEN [ok |-> TRUE, val |-> JList(Append(items, v.val)), next |-> k + 1]
        ELSE NoParse

ParseMembers(s, i, members) ==
    LET n == SkipWhitespace(s, i)
        c == SkipWhitespace(s, n + 1)
        v == ParseValue(s, c + 1)
        k == SkipWhitespace(s, v.next)
        key == Literals[s[n]].v[1]
        more == JDict([x \in DOMAIN members.v \cup {key} |->
                          IF x = key THEN v.val ELSE members.v[x]])
    IN  IF n > Len(s) \/ c > Len(s) THEN NoParse
        ELSE IF s[n] \notin DOMAIN Literals THEN NoParse
        ELSE IF Literals[s[n]].t # "str" \/ s[c] # ":" THEN NoParse
        ELSE IF ~v.ok \/ k > Len(s) THEN NoParse
        ELSE IF s[k] = ","
        THEN ParseMembers(s, k + 1, more)
        ELSE IF s[k] = "}"
        THEN [ok |-> TRUE, val |-> more, next |-> k + 1]
        ELSE NoParse

\* json.loads(s): JFail stands for JSONDecodeError (no value, or extra data
\* after it)
JsonLoads(s) ==
    LET v == ParseValue(s, 1)
    IN  IF v.ok /\ SkipWhitespace(s, v.next) > Len(s) THEN v.val ELSE JFail

\* method 2: group 1 of the first match of the code fence pattern, an
\* optional word json and whitespace after the opening fence and whitespace
\* before the closing fence left out; JFail stands for AttributeError
FenceContents(s) ==
    LET fences == {i \in 1..Len(s) : s[i] = Fence}
        open == SetMin(fences)
        close == SetMin(fences \ {open})
        from == IF open + 1 < close /\ s[open + 1] = "json" THEN open + 2
                ELSE open + 1
    IN  IF Cardinality(fences) < 2 THEN JFail
        ELSE JsonLoads(Strip(SubSeq(s, from, close - 1)))

\* methods 3 and 4: the first match of the greedy pattern, from the first
\* opening character to the last closing one
GreedySpan(s, opening, closing) ==
    LET opens == {i \in 1..Len(s) : s[i] = opening}
        closes == {i \in 1..Len(s) : s[i] = closing}
    IN  IF opens = {} \/ closes = {} THEN JFail
        ELSE IF SetMax(closes) < SetMin(opens) THEN JFail
        ELSE JsonLoads(SubSeq(s, SetMin(opens), SetMax(closes)))

\* a response text with what each extraction method makes of it
Reply(s) ==
    [empty |-> s = <<>>, raw |-> s,
     methods |-> <<JsonLoads(Strip(s)), FenceContents(s),
                   GreedySpan(s, "{", "}"), GreedySpan(s, "[", "]")>>]
(***************************************************************************)
(* LLMProvider (llm_provider.py), as far as the agent and the limiter see  *)
(* it: every attempt of generate/embed first takes a token with            *)
(* rate_limiter.acquire(), then calls the provider.  A failing attempt     *)
(* raises a plain Exception; successful responses carry no rate-limit      *)
(* headers.                                                                *)
(***************************************************************************)
\* rate_limit_rpm=float(os.getenv("LLM_RATE_LIMIT_RPM", "5.0"))
ProviderRPM == <<5, 1>>

\* max_retries (LLM_MAX_RETRIES)
MaxRetries == 2

\* how many attempts of one call fail: none, some, all
Failing == 0..MaxRetries

Clock == [tokens |-> tokens, last_refill |-> last_refill, mono |-> mono]

\* acquire() without timeout: returns once _try_acquire has taken a token;
\* the sleeps of the loop add up to the wait time _try_acquire reported
RECURSIVE AcquireBlocking(_)
AcquireBlocking(l) ==
    IF ~enabled THEN l
    ELSE LET r == TryAcquire(l.tokens, l.last_refill, retry_after_until, l.mono)
         IN  IF r.wait = 0
             THEN [l EXCEPT !.tokens = r.tokens, !.last_refill = r.last_refill]
             ELSE AcquireBlocking([tokens |-> r.tokens,
                                   last_refill |-> r.last_refill,
                                   mono |-> l.mono + r.wait])

\* time.sleep((2 ** attempt) * 2) after a failed attempt that is not the last
Backoff(attempt) ==
    IF attempt < MaxRetries - 1 THEN (2 ^ attempt) * 2 ELSE 0

\* a retry loop that makes one attempt more than max_retries
RECURSIVE CallWithRetryExtra(_, _, _)
CallWithRetryExtra(l, attempt, failing) ==
    IF attempt >= MaxRetries + 1 THEN [clock |-> l, raised |-> TRUE, invoked |-> 0]
    ELSE LET a == AcquireBlocking(l)
         IN  IF attempt >= failing /\ failing < MaxRetries
             THEN [clock |-> a, raised |-> FALSE, invoked |-> 1]
             ELSE LET rest == CallWithRetryExtra(
                                  [a EXCEPT !.mono = @ + Backoff(attempt)],
                                  attempt + 1, failing)
                  IN  [rest EXCEPT !.invoked = @ + 1]

\* _call_with_retry and the loop of embed: the attempts from attempt on, of
\* which those numbered below failing fail; invoked: the calls of the
\* provider made
RECURSIVE CallWithRetry(_, _, _)
CallWithRetry(l, attempt, failing) ==
    IF attempt >= MaxRetries THEN [clock |-> l, raised |-> TRUE, invoked |-> 0]
    ELSE LET a == AcquireBlocking(l)
         IN  IF attempt >= failing
             THEN [clock |-> a, raised |-> FALSE, invoked |-> 1]
             ELSE LET rest == CallWithRetry(
                                  [a EXCEPT !.mono = @ + Backoff(attempt)],
                                  attempt + 1, failing)
                  IN  [rest EXCEPT !.invoked = @ + 1]

(***************************************************************************)
(* IncidentAgent: the steps of analyze as functions                        *)
(***************************************************************************)
\* a filter that looks at the front of the name only
ShouldIgnoreAlertPrefix(service_name) ==
    \E i \in 1..Len(IGNORED_SERVICE_PATTERNS) :
        StartsWith(service_name, IGNORED_SERVICE_PATTERNS[i])

\* _should_ignore_alert
ShouldIgnoreAlert(service_name) ==
    \E i \in 1..Len(IGNORED_SERVICE_PATTERNS) :
        Contains(service_name, IGNORED_SERVICE_PATTERNS[i])

\* _sanitize_input
SanitizeInput(value) ==
    IF value = <<>> THEN <<>>
    ELSE Take(SelectSeq(value, LAMBDA c : c \notin InjectionChars), SanitizeLimit)

\* cache_key = f"{event.service_name}:{event.domain}"
CacheKey(e) == e.service_name \o <<":">> \o e.domain

EmptyCache == [k \in {} |-> 0]

\* a dedup test with the window of the purge
IsDuplicateWide(cache, key, now) ==
    key \in DOMAIN cache /\ now - cache[key] < CacheTTL * 2

\* "if cache_key in self._alert_cache: ... if time_since < self._cache_ttl"
IsDuplicate(cache, key, now) ==
    key \in DOMAIN cache /\ now - cache[key] < CacheTTL

\* self._alert_cache[cache_key] = current_time
Stamp(cache, key, now) ==
    [k \in DOMAIN cache \cup {key} |-> IF k = key THEN now ELSE cache[k]]

\* {k: v for k, v in self._alert_cache.items() if current_time - v < ttl * 2}
Purge(cache, now) ==
    [k \in {x \in DOMAIN cache : now - cache[x] < CacheTTL * 2} |-> cache[k]]

\* metadata.get("namespace", "default"), sanitized
NamespaceOf(e) ==
    SanitizeInput(IF e.namespace.present THEN e.namespace.value ELSE <<"d", "e", "f", "a", "u", "l", "t">>)

(***************************************************************************)
(* Processes.  What subprocess.run does with a command: it exits with a    *)
(* return code and captured output, exceeds the timeout, or fails to       *)
(* start.                                                                  *)
(***************************************************************************)
Exit(rc, out, err) ==
    [kind |-> "exit", returncode |-> rc, stdout |-> out, stderr |-> err]

TimeoutExpired == [kind |-> "timeout", returncode |-> 0, stdout |-> <<>>, stderr |-> <<>>]

LaunchError == [kind |-> "error", returncode |-> 0, stdout |-> <<>>, stderr |-> <<>>]

\* shlex.split raised: subprocess.run was not called
NotRun == [kind |-> "unparsed", returncode |-> 0, stdout |-> <<>>, stderr |-> <<>>]

\* one call of subprocess.run: with an argument list (shell FALSE), or with
\* the text handed to /bin/sh (shell TRUE); argvs are the programs started,
\* of is the entry of the command list the call was made for (none for a
\* listing of the discovery)
Launch(of, argv) == [shell |-> FALSE, cmd |-> <<>>, of |-> of, argvs |-> <<argv>>]

LaunchShell(cmd) ==
    [shell |-> TRUE, cmd |-> cmd, of |-> cmd, argvs |-> ShellCommands(cmd)]

NoResources == [pods |-> <<>>, deployments |-> <<>>, services |-> <<>>,
                replicasets |-> <<>>]

NoMatching == [pods |-> <<>>, deployments |-> <<>>]

\* discovery_commands
DiscoveryCommand(kind, namespace) ==
    <<<<"k", "u", "b", "e", "c", "t", "l">>, <<"g", "e", "t">>, kind, <<"-", "n">>, namespace, <<"-", "o">>, <<"n", "a", "m", "e">>>>

DiscoveryKinds == <<<<"p", "o", "d", "s">>, <<"d", "e", "p", "l", "o", "y", "m", "e", "n", "t", "s">>, <<"s", "e", "r", "v", "i", "c", "e", "s">>, <<"r", "e", "p", "l", "i", "c", "a", "s", "e", "t", "s">>>>

\* "pod/myapp-abc123" -> "myapp-abc123"
ItemOf(line) ==
    IF Contains(line, <<"/">>)
    THEN SubSeq(line, SetMin({i \in 1..Len(line) : line[i] = "/"}) + 1, Len(line))
    ELSE Strip(line)

\* the items one listing yields (stdout is given as the lines of
\* result.stdout.strip()); a failure of any kind yields none
ListingItems(out) ==
    IF out.kind = "exit" /\ out.returncode = 0 /\ out.stdout # <<>>
    THEN LET lines == SelectSeq(out.stdout,
                          LAMBDA line : Contains(line, <<"/">>) \/ Strip(line) # <<>>)
         IN  Take([i \in 1..Len(lines) |-> ItemOf(lines[i])], DiscoveryLimit)
    ELSE <<>>

\* _discover_resources: outs are the outcomes of the four listings
DiscoverResources(outs) ==
    [pods |-> ListingItems(outs[1]), deployments |-> ListingItems(outs[2]),
     services |-> ListingItems(outs[3]), replicasets |-> ListingItems(outs[4])]

\* "service_lower in name.lower() or any(part in name.lower() for part in
\*  service_lower.split('-'))"
NameMatches(service_name, name) ==
    LET service_lower == Lower(service_name)
        parts == SplitOn(service_lower, "-")
    IN  \/ Contains(Lower(name), service_lower)
        \/ \E i \in 1..Len(parts) : Contains(Lower(name), parts[i])

\* _find_matching_resources
FindMatchingResources(service_name, resources) ==
    [pods |-> SelectSeq(resources.pods,
                        LAMBDA pod : NameMatches(service_name, pod)),
     deployments |-> SelectSeq(resources.deployments,
                        LAMBDA deploy : NameMatches(service_name, deploy))]

\* context strings of _build_context
NoRunbook == <<"No specific runbook found. Use general troubleshooting.">>

RunbookUnavailable == <<"Runbook found but failed to retrieve content.">>

ContextFailed == <<"Context retrieval failed.">>

Runbook(title, content) ==
    <<"RELEVANT RUNBOOK: Title: ", title, " Content: ", content>>

\* results of qdrant.query_points: an exception, no point, a point whose
\* payload is missing, a point with a payload
SearchRaises == [kind |-> "raise", payload |-> FALSE]

SearchEmpty == [kind |-> "empty", payload |-> FALSE]

SearchHitBare == [kind |-> "hit", payload |-> FALSE]

SearchHit == [kind |-> "hit", payload |-> TRUE]

\* the try block of _build_context
BuildContextBody(embed_raised, search, fetch_ok) ==
    IF embed_raised THEN Raise(ProviderError)
    ELSE IF search.kind = "raise" THEN Raise(SearchError)
    ELSE IF search.kind = "empty" THEN Value(NoRunbook)
    ELSE IF ~search.payload THEN Raise(AttributeError)
    ELSE IF ~fetch_ok THEN Value(RunbookUnavailable)
    ELSE Value(Runbook("High memory usage", "runbook text"))

\* _build_context without its except clause
BuildContextNoCatch(embed_raised, search, fetch_ok) ==
    BuildContextBody(embed_raised, search, fetch_ok)

\* _build_context: any exception of the body becomes "Context retrieval failed."
BuildContext(embed_raised, search, fetch_ok) ==
    LET body == BuildContextBody(embed_raised, search, fetch_ok)
    IN  IF body.exc # NoExc THEN Value(ContextFailed) ELSE body

\* a whitelist test that accepts every kubectl command
IsAllowedCommandLoose(cmd) == StartsWith(cmd, <<"k", "u", "b", "e", "c", "t", "l">>)

\* "any(cmd.startswith(allowed) for allowed in self.ALLOWED_COMMANDS)"
IsAllowedCommand(cmd) ==
    \E i \in 1..Len(ALLOWED_COMMANDS) : StartsWith(cmd, ALLOWED_COMMANDS[i])

\* _generate_fallback_commands
GenerateFallbackCommands(namespace, resources, matching) ==
    LET pod_commands ==
            IF matching.pods # <<>>
            THEN << <<"k", "u", "b", "e", "c", "t", "l", " ", "d", "e", "s", "c", "r", "i", "b", "e", " ", "p", "o", "d", " ">> \o matching.pods[1] \o <<" ", "-", "n", " ">> \o namespace,
                    <<"k", "u", "b", "e", "c", "t", "l", " ", "l", "o", "g", "s", " ">> \o matching.pods[1] \o <<" ", "-", "n", " ">> \o namespace
                        \o <<" ", "-", "-", "t", "a", "i", "l", "=", "1", "0", "0">> >>
            ELSE IF resources.pods # <<>>
            THEN << <<"k", "u", "b", "e", "c", "t", "l", " ", "d", "e", "s", "c", "r", "i", "b", "e", " ", "p", "o", "d", " ">> \o resources.pods[1] \o <<" ", "-", "n", " ">> \o namespace >>
            ELSE <<>>
    IN  Take(pod_commands
               \o << <<"k", "u", "b", "e", "c", "t", "l", " ", "g", "e", "t", " ", "e", "v", "e", "n", "t", "s", " ", "-", "n", " ">> \o namespace
                        \o <<" ", "-", "-", "s", "o", "r", "t", "-", "b", "y", "=", ".", "l", "a", "s", "t", "T", "i", "m", "e", "s", "t", "a", "m", "p", " ", "|", " ", "t", "a", "i", "l", " ", "-", "2", "0">> >>,
             CommandLimit)

\* the entries of data["commands"] a for loop visits
ItemsOf(j) ==
    IF j.t = "list" THEN j.v
    ELSE [i \in 1..Len(j.v) |-> JStr(<<j.v[i]>>)]

\* the try block without the fallback for an empty validated list
PlanBodyNoFallback(generate_raised, text, namespace, resources, matching) ==
    IF generate_raised THEN Raise(LLMCallFailed)
    ELSE LET data == ExtractJson(text)
         IN  IF data.t # "dict" THEN Raise(AttributeError)
             ELSE LET commands == Get(data, "commands", JList(<<>>))
                  IN  IF commands.t \notin {"list", "str"} THEN Raise(TypeError)
                      ELSE LET first == Take(ItemsOf(commands), CommandLimit)
                               stripped == [i \in 1..Len(first) |-> Strip(first[i].v)]
                               validated == SelectSeq(stripped, IsAllowedCommand)
                           IN  IF \E i \in 1..Len(first) : first[i].t # "str"
                               THEN Raise(AttributeError)
                               ELSE Value(validated)

\* a try block that validates the whole list and then keeps five commands
PlanBodyValidateFirst(generate_raised, text, namespace, resources, matching) ==
    IF generate_raised THEN Raise(LLMCallFailed)
    ELSE LET data == ExtractJson(text)
         IN  IF data.t # "dict" THEN Raise(AttributeError)
             ELSE LET commands == Get(data, "commands", JList(<<>>))
                  IN  IF commands.t \notin {"list", "str"} THEN Raise(TypeError)
                      ELSE LET first == ItemsOf(commands)
                               stripped == [i \in 1..Len(first) |-> Strip(first[i].v)]
                               validated == Take(SelectSeq(stripped, IsAllowedCommand),
                                                 CommandLimit)
                           IN  IF \E i \in 1..Len(first) : first[i].t # "str"
                               THEN Raise(AttributeError)
                               ELSE IF validated = <<>>
                               THEN Value(GenerateFallbackCommands(
                                              namespace, resources, matching))
                               ELSE Value(validated)

\* the try block of _get_diagnostic_commands
PlanBody(generate_raised, text, namespace, resources, matching) ==
    IF generate_raised THEN Raise(LLMCallFailed)
    ELSE LET data == ExtractJson(text)
         IN  IF data.t # "dict" THEN Raise(AttributeError)
             ELSE LET commands == Get(data, "commands", JList(<<>>))
                  IN  IF commands.t \notin {"list", "str"} THEN Raise(TypeError)
                      ELSE LET first == Take(ItemsOf(commands), CommandLimit)
                               stripped == [i \in 1..Len(first) |-> Strip(first[i].v)]
                               validated == SelectSeq(stripped, IsAllowedCommand)
                           IN  IF \E i \in 1..Len(first) : first[i].t # "str"
                               THEN Raise(AttributeError)
                               ELSE IF validated = <<>>
                               THEN Value(GenerateFallbackCommands(
                                              namespace, resources, matching))
                               ELSE Value(validated)

\* _get_diagnostic_commands: any exception of the body yields the fallback
GetDiagnosticCommands(generate_raised, text, namespace, resources, matching) ==
    LET body == PlanBody(generate_raised, text, namespace, resources, matching)
    IN  IF body.exc # NoExc
        THEN Value(GenerateFallbackCommands(namespace, resources, matching))
        ELSE body

\* the commands the validation loop of _get_diagnostic_commands blocks
\* ("BLOCKED (whitelist)"), as far as the loop gets
RejectedCommands(generate_raised, text) ==
    LET data == ExtractJson(text)
        commands == IF data.t = "dict" THEN Get(data, "commands", JList(<<>>))
                    ELSE JList(<<>>)
        first == IF commands.t \in {"list", "str"}
                 THEN Take(ItemsOf(commands), CommandLimit)
                 ELSE <<>>
        bad == {i \in 1..Len(first) : first[i].t # "str"}
        seen == IF bad = {} THEN first ELSE SubSeq(first, 1, SetMin(bad) - 1)
    IN  IF generate_raised THEN {}
        ELSE {seen[i].v : i \in {k \in 1..Len(seen) :
                                    ~IsAllowedCommand(Strip(seen[k].v))}}

\* the entries of data["commands"] that "commands[:5]" leaves out
BeyondLimit(generate_raised, text) ==
    LET data == ExtractJson(text)
        commands == IF data.t = "dict" THEN Get(data, "commands", JList(<<>>))
                    ELSE JList(<<>>)
        all == IF commands.t \in {"list", "str"} THEN ItemsOf(commands) ELSE <<>>
    IN  IF generate_raised THEN {}
        ELSE {all[i] : i \in {k \in 1..Len(all) : k > CommandLimit}}

\* the block _run_diagnostics appends for a command that was started
ResultBlock(cmd, out) ==
    [cmd |-> cmd,
     body |-> IF out.kind = "timeout" THEN <<"Timeout after 30s">>
              ELSE IF out.kind = "error" THEN <<"Failed: ", KubectlMissing>>
              ELSE IF out.returncode = 0 /\ out.stdout # <<>>
              THEN Take(out.stdout, 3000)
              ELSE IF out.stderr # <<>>
              THEN <<"Command failed: ">> \o Take(out.stderr, 500)
              ELSE <<"(No output)">>]

\* the loop body without the except clause for subprocess.TimeoutExpired: no
\* block is appended for a command that timed out
RunCommandNoTimeoutBlock(cmd, out) ==
    IF ~IsAllowedCommand(Strip(cmd))
    THEN [launched |-> <<>>, blocks |-> <<>>, ran |-> <<>>]
    ELSE IF Contains(cmd, <<"|">>)
    THEN [launched |-> <<LaunchShell(cmd)>>,
          blocks |-> IF out.kind = "timeout" THEN <<>>
                     ELSE <<ResultBlock(cmd, out)>>,
          ran |-> IF out.kind = "timeout" THEN <<>> ELSE <<out>>]
    ELSE IF ~ShlexSplit(cmd).ok
    THEN [launched |-> <<>>,
          blocks |-> <<[cmd |-> cmd,
                        body |-> <<"Parse error: ", "No closing quotation">>]>>,
          ran |-> <<NotRun>>]
    ELSE [launched |-> <<Launch(cmd, ShlexSplit(cmd).argv)>>,
          blocks |-> IF out.kind = "timeout" THEN <<>>
                     ELSE <<ResultBlock(cmd, out)>>,
          ran |-> IF out.kind = "timeout" THEN <<>> ELSE <<out>>]

\* one iteration of the loop of _run_diagnostics: whether subprocess.run was
\* called and with what, the block appended to the report (if any), and
\* what the block was appended for
RunCommand(cmd, out) ==
    IF ~IsAllowedCommand(Strip(cmd))
    THEN [launched |-> <<>>, blocks |-> <<>>, ran |-> <<>>]
    ELSE IF Contains(cmd, <<"|">>)
    THEN [launched |-> <<LaunchShell(cmd)>>, blocks |-> <<ResultBlock(cmd, out)>>,
          ran |-> <<out>>]
    ELSE IF ~ShlexSplit(cmd).ok
    THEN [launched |-> <<>>,
          blocks |-> <<[cmd |-> cmd,
                        body |-> <<"Parse error: ", "No closing quotation">>]>>,
          ran |-> <<NotRun>>]
    ELSE [launched |-> <<Launch(cmd, ShlexSplit(cmd).argv)>>,
          blocks |-> <<ResultBlock(cmd, out)>>,
          ran |-> <<out>>]

\* "\n\n".join(diagnostics), or the text for an empty report
RECURSIVE JoinBlocks(_)
JoinBlocks(blocks) ==
    IF blocks = <<>> THEN <<>>
    ELSE <<"=== ">> \o Head(blocks).cmd \o <<" ===\n">> \o Head(blocks).body
            \o (IF Tail(blocks) = <<>> THEN <<>> ELSE <<"\n\n">>)
            \o JoinBlocks(Tail(blocks))

Report(blocks) ==
    IF blocks = <<>> THEN <<"No diagnostic information could be gathered.">>
    ELSE JoinBlocks(blocks)

(***************************************************************************)
(* analyze() called by several threads on one IncidentAgent.  The dedup    *)
(* check, the cache update and the purge (agent.py 192-207) run without a  *)
(* lock: each step below is one operation on the dictionary, and the       *)
(* threads interleave between them.  The pipeline after the purge does not *)
(* touch the cache.                                                        *)
(***************************************************************************)
Callers == {"t1", "t2"}

KeyError == "KeyError"

\* pc: idle, check (before 'cache_key in self._alert_cache'), read (before
\* 'self._alert_cache[cache_key]'), stamp (before the cache update), purge
\* (before the comprehension is evaluated), assign (before its result is
\* stored), full (in the pipeline), done; now: current_time; snapshot: the
\* dictionary the comprehension built; path: ignored, cached, full or raised
CallerIdle ==
    [pc |-> "idle", event |-> NoEvent, now |-> 0, snapshot |-> EmptyCache,
     path |-> "none"]

\* analyze(event) up to 'current_time = time.time()'
ConcurrentCall(t, e) ==
    /\ callers[t].pc = "idle"
    /\ callers' = [callers EXCEPT ![t] =
          IF ShouldIgnoreAlert(e.service_name)
          THEN [CallerIdle EXCEPT !.pc = "done", !.event = e, !.path = "ignored"]
          ELSE [CallerIdle EXCEPT !.pc = "check", !.event = e, !.now = wall]]
    /\ UNCHANGED <<limiter, provider, wall, alert_cache, an, executed, streak,
                   stamps>>

\* if cache_key in self._alert_cache
CheckCache(t) ==
    /\ callers[t].pc = "check"
    /\ callers' = [callers EXCEPT ![t].pc =
          IF CacheKey(callers[t].event) \in DOMAIN alert_cache
          THEN "read" ELSE "stamp"]
    /\ UNCHANGED <<limiter, provider, wall, alert_cache, an, executed, streak,
                   stamps>>

\* last_processed = self._alert_cache[cache_key]; the test against the TTL
ReadCache(t) ==
    LET me == callers[t]
        key == CacheKey(me.event)
    IN  /\ me.pc = "read"
        /\ callers' = [callers EXCEPT ![t] =
              IF key \notin DOMAIN alert_cache
              THEN [me EXCEPT !.pc = "done", !.path = "raised"]
              ELSE IF me.now - alert_cache[key] < CacheTTL
              THEN [me EXCEPT !.pc = "done", !.path = "cached"]
              ELSE [me EXCEPT !.pc = "stamp"]]
        /\ UNCHANGED <<limiter, provider, wall, alert_cache, an, executed,
                       streak, stamps>>

\* self._alert_cache[cache_key] = current_time
StampCache(t) ==
    LET me == callers[t]
    IN  /\ me.pc = "stamp"
        /\ alert_cache' = Stamp(alert_cache, CacheKey(me.event), me.now)
        /\ stamps' = Stamp(stamps, CacheKey(me.event),
                           IF CacheKey(me.event) \in DOMAIN stamps
                           THEN Max(stamps[CacheKey(me.event)], me.now)
                           ELSE me.now)
        /\ callers' = [callers EXCEPT ![t].pc = "purge"]
        /\ UNCHANGED <<limiter, provider, wall, an, executed, streak>>

\* the dictionary comprehension over self._alert_cache.items()
PurgeRead(t) ==
    /\ callers[t].pc = "purge"
    /\ callers' = [callers EXCEPT ![t].pc = "assign",
                                  ![t].snapshot = Purge(alert_cache, callers[t].now)]
    /\ UNCHANGED <<limiter, provider, wall, alert_cache, an, executed, streak,
                   stamps>>

\* self._alert_cache = <the new dictionary>
PurgeAssign(t) ==
    /\ callers[t].pc = "assign"
    /\ alert_cache' = callers[t].snapshot
    /\ callers' = [callers EXCEPT ![t].pc = "full", ![t].path = "full",
                                  ![t].snapshot = EmptyCache]
    /\ UNCHANGED <<limiter, provider, wall, an, executed, streak, stamps>>

\* steps 1 to 7 of analyze: the Decision of the full processing
PipelineDone(t) ==
    /\ callers[t].pc = "full"
    /\ callers' = [callers EXCEPT ![t].pc = "done"]
    /\ UNCHANGED <<limiter, provider, wall, alert_cache, an, executed, streak,
                   stamps>>

\* the caller has the Decision (or the exception)
ConcurrentReturn(t) ==
    /\ callers[t].pc = "done"
    /\ callers' = [callers EXCEPT ![t] = CallerIdle]
    /\ UNCHANGED <<limiter, provider, wall, alert_cache, an, executed, streak,
                   stamps>>

\* float(value): a number, a numeric string, anything else
FloatOf(j) ==
    IF j.t = "num" THEN Value(j.v)
    ELSE IF j.t = "str"
    THEN IF j.v = <<"0", ".", "9">> THEN Value(90) ELSE Raise(ValueError)
    ELSE Raise(TypeError)

\* str(v)
StrOf(j) == IF j.t = "str" THEN j.v ELSE <<ToString(j.v)>>

\* the exception one iteration of the loop over proposed_actions raises
ActionError(j) ==
    IF j.t # "dict" THEN AttributeError
    ELSE IF \/ Get(j, "action_type", JStr(<<"unknown">>)).t # "str"
            \/ Get(j, "target", JStr(<<"unknown">>)).t # "str"
            \/ Get(j, "reasoning", JStr(<<>>)).t # "str"
    THEN TypeError
    ELSE NoExc

\* the loop over proposed_actions with one uuid4() made before the loop
ActionOfSharedId(j, action_id, decision_id) ==
    [action_id |-> decision_id + 1, decision_id |-> decision_id,
     action_type |-> Get(j, "action_type", JStr(<<"unknown">>)).v,
     target |-> Get(j, "target", JStr(<<"unknown">>)).v,
     reasoning |-> Get(j, "reasoning", JStr(<<>>)).v,
     params |-> IF "params" \in DOMAIN j.v /\ j.v["params"].t = "dict"
                THEN [k \in DOMAIN j.v["params"].v |-> StrOf(j.v["params"].v[k])]
                ELSE [k \in {} |-> <<>>]]

\* the Action one iteration of the loop over proposed_actions adds
ActionOf(j, action_id, decision_id) ==
    [action_id |-> action_id, decision_id |-> decision_id,
     action_type |-> Get(j, "action_type", JStr(<<"unknown">>)).v,
     target |-> Get(j, "target", JStr(<<"unknown">>)).v,
     reasoning |-> Get(j, "reasoning", JStr(<<>>)).v,
     params |-> IF "params" \in DOMAIN j.v /\ j.v["params"].t = "dict"
                THEN [k \in DOMAIN j.v["params"].v |-> StrOf(j.v["params"].v[k])]
                ELSE [k \in {} |-> <<>>]]

\* the "if data:" branch of _parse_decision
FillDecision(data, e) ==
    IF data.t # "dict" THEN Raise(AttributeError)
    ELSE LET analysis == Get(data, "analysis", JStr(<<"Analysis completed.">>))
             confidence == FloatOf(Get(data, "confidence_score", JNum(50)))
             actions == Get(data, "proposed_actions", JList(<<>>))
             bad == {i \in 1..Len(actions.v) : ActionError(actions.v[i]) # NoExc}
         IN  IF analysis.t # "str" THEN Raise(TypeError)
             ELSE IF confidence.exc # NoExc THEN confidence
             ELSE IF actions.t # "list" THEN Raise(TypeError)
             ELSE IF bad # {} THEN Raise(ActionError(actions.v[SetMin(bad)]))
             ELSE Value(Decision(1, e, analysis.v, confidence.val,
                                 [i \in 1..Len(actions.v) |->
                                     ActionOf(actions.v[i], i + 1, 1)]))

\* _parse_decision without the try/except around the corrective call
ParseDecisionRaising(llm_output, e, retry_raised, retry_text) ==
    LET first == ExtractJson(llm_output)
        retried == ~Truthy(first)
        data == IF retried /\ ~retry_raised THEN ExtractJson(retry_text)
                ELSE first
    IN  [retried |-> retried,
         result |-> IF retried /\ retry_raised THEN Raise(LLMCallFailed)
                    ELSE IF Truthy(data) THEN FillDecision(data, e)
                    ELSE Value(Decision(1, e,
                                   <<"Parse Error. Raw: ">>
                                       \o Take(llm_output.raw, RawLimit),
                                   0, <<>>))]

\* _parse_decision with the default confidence of the "if data" branch in
\* the parse error Decision
ParseDecisionDefaultConfidence(llm_output, e, retry_raised, retry_text) ==
    LET first == ExtractJson(llm_output)
        retried == ~Truthy(first)
        data == IF retried /\ ~retry_raised THEN ExtractJson(retry_text)
                ELSE first
    IN  [retried |-> retried,
         result |-> IF Truthy(data) THEN FillDecision(data, e)
                    ELSE Value(Decision(1, e,
                                   <<"Parse Error. Raw: ">>
                                       \o Take(llm_output.raw, RawLimit),
                                   50, <<>>))]

\* _parse_decision: retried tells whether the corrective generate call was
\* made; its outcome is (retry_raised, retry_text)
ParseDecision(llm_output, e, retry_raised, retry_text) ==
    LET first == ExtractJson(llm_output)
        retried == ~Truthy(first)
        data == IF retried /\ ~retry_raised THEN ExtractJson(retry_text)
                ELSE first
    IN  [retried |-> retried,
         result |-> IF Truthy(data) THEN FillDecision(data, e)
                    ELSE Value(Decision(1, e,
                                   <<"Parse Error. Raw: ">>
                                       \o Take(llm_output.raw, RawLimit),
                                   0, <<>>))]

(***************************************************************************)
(* IncidentAgent: state and actions                                        *)
(***************************************************************************)
\* pc: where the call is; path: ignored, cached, full (analyze) or direct
\* (_run_diagnostics called on its own); decision: what analyze returned;
\* llm_output: the response _parse_decision is working on;
\* rejected: the proposed commands the validation of the plan blocked;
\* beyond: the proposed entries after the fifth, which the plan leaves out;
\* outcomes: for each block of diagnostics, how its command ended;
\* extracted: what _extract_json returned when called on its own;
\* fell_back: the plan is the one _generate_fallback_commands built;
\* corrective: how the corrective generate call of _parse_decision went
\* (none: not made, raised, empty: nothing extracted from its response, data);
\* llm_calls / llm_raised: calls of generate and embed made / that raised;
\* embeds: calls of embed made; invoked: calls of the provider made by them;
\* caught: the exception the except
\* clause of analyze caught; escaped: the exception that left analyze
AnIdle ==
    [pc |-> "idle", path |-> "none", event |-> NoEvent, namespace |-> <<>>,
     resources |-> NoResources, matching |-> NoMatching, context |-> <<>>,
     rejected |-> {}, commands |-> <<>>, idx |-> 0, diagnostics |-> <<>>,
     outcomes |-> <<>>, extracted |-> <<>>,
     report |-> <<>>, llm_output |-> EmptyText, corrective |-> "none",
     fell_back |-> FALSE,
     decision |-> <<>>, llm_calls |-> 0, llm_raised |-> 0,
     embeds |-> 0, invoked |-> 0, beyond |-> {},
     caught |-> NoExc, escaped |-> NoExc]

\* pair, at: the (service, domain) of the latest event that was not ignored
\* and, while only events of that pair followed, the time its latest full
\* processing read; again: a later event of the pair was processed in full,
\* gap seconds after the full processing before it; skipped: a later event
\* of the pair was answered from the cache
StreakInit ==
    [pair |-> <<>>, at |-> NoValue, again |-> FALSE, gap |-> 0, skipped |-> FALSE,
     failed |-> FALSE, owners |-> <<>>]

StreakFull(s, e, now) ==
    IF s.pair = Pair(e) /\ s.at # NoValue
    THEN [s EXCEPT !.at = now, !.again = TRUE, !.gap = now - s.at,
                   !.failed = FALSE]
    ELSE [StreakInit EXCEPT !.pair = Pair(e), !.at = now, !.owners = s.owners]

\* failed: the latest full processing of the pair ended in the fallback
\* Decision of the except clause of analyze
StreakEnded(s, a) ==
    IF a.pc = "done" THEN [s EXCEPT !.failed = a.caught # NoExc] ELSE s

StreakCached(s, e) ==
    IF s.pair = Pair(e) /\ s.at # NoValue
    THEN [s EXCEPT !.skipped = TRUE]
    ELSE [StreakInit EXCEPT !.pair = Pair(e), !.owners = s.owners]

\* owners: for each entry of the cache, the (service, domain) of the event
\* whose processing wrote its timestamp
Owners(s, e, cache) ==
    [s EXCEPT !.owners = [k \in DOMAIN cache |->
                             IF k = CacheKey(e) THEN Pair(e) ELSE s.owners[k]]]

InitAgent ==
    /\ wall = 0
    /\ alert_cache = EmptyCache
    /\ an = AnIdle
    /\ executed = <<>>
    /\ streak = StreakInit
    /\ callers = [t \in Callers |-> CallerIdle]
    /\ stamps = EmptyCache

\* the limiter after the calls of generate/embed of one step
LimiterAfter(l) ==
    /\ tokens' = l.tokens
    /\ last_refill' = l.last_refill
    /\ mono' = l.mono
    /\ hist' = Throttled(hist)
    /\ UNCHANGED <<cfg, retry_after_until, acq, provider, concurrent>>

\* analyze with a dedup short-circuit that writes the time of the duplicate
\* into the cache
AnalyzeCallRefreshing(e) ==
    /\ an.pc = "idle"
    /\ IF ShouldIgnoreAlert(e.service_name)
       THEN /\ an' = [AnIdle EXCEPT !.pc = "done", !.path = "ignored",
                                    !.event = e,
                                    !.decision = <<IgnoredDecision(e)>>]
            /\ UNCHANGED <<alert_cache, streak, stamps>>
       ELSE IF IsDuplicate(alert_cache, CacheKey(e), wall)
       THEN /\ an' = [AnIdle EXCEPT !.pc = "done", !.path = "cached",
                                    !.event = e,
                                    !.decision = <<CachedDecision(e)>>]
            /\ streak' = StreakCached(streak, e)
            /\ alert_cache' = Stamp(alert_cache, CacheKey(e), wall)
            /\ UNCHANGED stamps
       ELSE /\ alert_cache' = Purge(Stamp(alert_cache, CacheKey(e), wall), wall)
            /\ an' = [AnIdle EXCEPT !.pc = "discover", !.path = "full",
                                    !.event = e, !.namespace = NamespaceOf(e)]
            /\ streak' = Owners(StreakFull(streak, e, wall), e,
                                Purge(Stamp(alert_cache, CacheKey(e), wall), wall))
            /\ stamps' = Stamp(stamps, CacheKey(e), wall)
    /\ UNCHANGED <<limiter, provider, callers, wall, executed>>

\* analyze(event) up to the discovery: ignore filter, dedup check, cache
\* update and purge, namespace
AnalyzeCall(e) ==
    /\ an.pc = "idle"
    /\ IF ShouldIgnoreAlert(e.service_name)
       THEN /\ an' = [AnIdle EXCEPT !.pc = "done", !.path = "ignored",
                                    !.event = e,
                                    !.decision = <<IgnoredDecision(e)>>]
            /\ UNCHANGED <<alert_cache, streak, stamps>>
       ELSE IF IsDuplicate(alert_cache, CacheKey(e), wall)
       THEN /\ an' = [AnIdle EXCEPT !.pc = "done", !.path = "cached",
                                    !.event = e,
                                    !.decision = <<CachedDecision(e)>>]
            /\ streak' = StreakCached(streak, e)
            /\ UNCHANGED <<alert_cache, stamps>>
       ELSE /\ alert_cache' = Purge(Stamp(alert_cache, CacheKey(e), wall), wall)
            /\ an' = [AnIdle EXCEPT !.pc = "discover", !.path = "full",
                                    !.event = e, !.namespace = NamespaceOf(e)]
            /\ streak' = Owners(StreakFull(streak, e, wall), e,
                                Purge(Stamp(alert_cache, CacheKey(e), wall), wall))
            /\ stamps' = Stamp(stamps, CacheKey(e), wall)
    /\ UNCHANGED <<limiter, provider, callers, wall, executed>>

\* 1. _discover_resources and _find_matching_resources
DiscoverStep(outs) ==
    /\ an.pc = "discover"
    /\ an' = [an EXCEPT !.pc = "context",
                        !.resources = DiscoverResources(outs),
                        !.matching = FindMatchingResources(
                                         an.event.service_name,
                                         DiscoverResources(outs))]
    /\ executed' = executed \o
                     [i \in 1..Len(DiscoveryKinds) |->
                         Launch(<<>>, DiscoveryCommand(DiscoveryKinds[i],
                                                      an.namespace))]
    /\ UNCHANGED <<limiter, provider, concurrent, wall, alert_cache, streak>>

\* 2. _build_context: embed, vector search, blob fetch
ContextStep(failing, search, fetch_ok) ==
    /\ an.pc = "context"
    /\ LET call == CallWithRetry(Clock, 0, failing)
           r == BuildContext(call.raised, search, fetch_ok)
       IN  /\ LimiterAfter(call.clock)
           /\ an' = IF r.exc # NoExc
                    THEN [an EXCEPT !.pc = "raised", !.escaped = r.exc]
                    ELSE [an EXCEPT !.pc = "plan", !.context = r.val,
                                    !.llm_calls = @ + 1,
                                    !.embeds = @ + 1,
                                    !.invoked = @ + call.invoked,
                                    !.llm_raised = @ + IF call.raised THEN 1 ELSE 0]
    /\ UNCHANGED <<wall, alert_cache, executed, streak>>

\* the call after _run_diagnostics has gone through its commands
AfterCommands(a) ==
    IF a.idx <= Len(a.commands) THEN a
    ELSE [a EXCEPT !.pc = IF a.path = "direct" THEN "done" ELSE "synth",
                   !.report = Report(a.diagnostics)]

\* 3. _get_diagnostic_commands
PlanStep(failing, text) ==
    /\ an.pc = "plan"
    /\ LET call == CallWithRetry(Clock, 0, failing)
           r == GetDiagnosticCommands(call.raised, text, an.namespace,
                                      an.resources, an.matching)
       IN  /\ LimiterAfter(call.clock)
           /\ an' = IF r.exc # NoExc
                    THEN [an EXCEPT !.pc = "raised", !.escaped = r.exc]
                    ELSE AfterCommands(
                           [an EXCEPT !.pc = "exec", !.commands = r.val,
                                      !.idx = 1,
                                      !.fell_back =
                                          r.val = GenerateFallbackCommands(
                                                      an.namespace, an.resources,
                                                      an.matching),
                                      !.rejected = RejectedCommands(call.raised, text),
                                      !.beyond = BeyondLimit(call.raised, text),
                                      !.context = <<>>,
                                      !.resources = NoResources,
                                      !.matching = NoMatching,
                                      !.llm_calls = @ + 1,
                                      !.invoked = @ + call.invoked,
                                      !.llm_raised = @ + IF call.raised THEN 1 ELSE 0])
    /\ UNCHANGED <<wall, alert_cache, executed, streak>>

\* 4. _run_diagnostics: one iteration of its loop
ExecStep(out) ==
    /\ an.pc = "exec"
    /\ an.idx <= Len(an.commands)
    /\ LET r == RunCommand(an.commands[an.idx], out)
       IN  /\ executed' = executed \o r.launched
           /\ an' = AfterCommands([an EXCEPT !.idx = @ + 1,
                                             !.diagnostics = @ \o r.blocks,
                                             !.outcomes = @ \o r.ran])
    /\ UNCHANGED <<limiter, provider, concurrent, wall, alert_cache, streak>>

\* how analyze ends once the try block at its end has a result
Finish(a, result) ==
    [a EXCEPT !.pc = "done",
              !.context = <<>>, !.diagnostics = <<>>, !.outcomes = <<>>, !.report = <<>>,
              !.decision = IF result.exc # NoExc
                           THEN <<FallbackDecision(a.event, result.exc)>>
                           ELSE <<result.val>>,
              !.caught = result.exc]

\* 5.-7. _build_prompt, generate, and _parse_decision up to its corrective
\* call
SynthesizeStep(failing, text) ==
    /\ an.pc = "synth"
    /\ LET call == CallWithRetry(Clock, 0, failing)
           counted == [an EXCEPT !.llm_calls = @ + 1,
                                 !.invoked = @ + call.invoked,
                                 !.llm_raised = @ + IF call.raised THEN 1 ELSE 0]
       IN  /\ LimiterAfter(call.clock)
           /\ an' = IF call.raised
                    THEN Finish(counted, Raise(LLMCallFailed))
                    ELSE IF Truthy(ExtractJson(text))
                    THEN Finish(counted,
                                ParseDecision(text, an.event, FALSE, text).result)
                    ELSE [counted EXCEPT !.pc = "reformat", !.llm_output = text,
                                         !.context = <<>>, !.diagnostics = <<>>, !.outcomes = <<>>,
                                         !.report = <<>>]
    /\ streak' = StreakEnded(streak, an')
    /\ UNCHANGED <<wall, alert_cache, executed>>

\* 7. _parse_decision from its corrective call on, and the except clause
ReformatStep(failing, text) ==
    /\ an.pc = "reformat"
    /\ LET call == CallWithRetry(Clock, 0, failing)
           counted == [an EXCEPT !.llm_calls = @ + 1,
                                 !.invoked = @ + call.invoked,
                                 !.llm_raised = @ + IF call.raised THEN 1 ELSE 0,
                                 !.corrective =
                                     IF call.raised THEN "raised"
                                     ELSE IF Truthy(ExtractJson(text)) THEN "data"
                                     ELSE "empty"]
       IN  /\ LimiterAfter(call.clock)
           /\ an' = Finish(counted,
                           ParseDecision(an.llm_output, an.event,
                                         call.raised, text).result)
    /\ streak' = StreakEnded(streak, an')
    /\ UNCHANGED <<wall, alert_cache, executed>>

\* the caller has the returned value; the locals of the call are gone
Return ==
    /\ an.pc = "done"
    /\ an' = AnIdle
    /\ executed' = <<>>
    /\ UNCHANGED <<limiter, provider, concurrent, wall, alert_cache, streak>>

\* _run_diagnostics(commands) called on a list of its own
RunDiagnosticsCall(commands) ==
    /\ an.pc = "idle"
    /\ an' = AfterCommands([AnIdle EXCEPT !.pc = "exec", !.path = "direct",
                                          !.commands = commands, !.idx = 1])
    /\ UNCHANGED <<limiter, provider, concurrent, wall, alert_cache, executed, streak>>


\* _extract_json(text) called on a text of its own
ExtractJsonCall(s) ==
    /\ an.pc = "idle"
    /\ an' = [AnIdle EXCEPT !.pc = "done", !.path = "extract",
                            !.llm_output = Reply(s),
                            !.extracted = <<ExtractJson(Reply(s))>>]
    /\ UNCHANGED <<limiter, provider, concurrent, wall, alert_cache, executed, streak>>

(***************************************************************************)
(* LLMProvider: generate (_call_with_retry) and embed, called by threads   *)
(* that share the one rate limiter of the provider.  A sleep ends at the   *)
(* first clock reading that is not before its end.                         *)
(***************************************************************************)
Workers == {"w1", "w2"}

Methods == {"generate", "embed"}

\* what a call of completion()/embedding() raises
RateLimitError == "RateLimitError"

APIError == "APIError"

UnexpectedError == "unexpected error"

NoTerminal == [text |-> "", cause |-> NoExc]

\* raise Exception(f"LLM call failed after {self.max_retries} attempts: {last_error}")
CallFailed(last_error) ==
    [text |-> "LLM call failed after max_retries attempts", cause |-> last_error]

\* raise Exception(f"Embedding call failed after {self.max_retries} attempts")
EmbeddingFailed ==
    [text |-> "Embedding call failed after max_retries attempts", cause |-> NoExc]

\* a bare raise in an except clause: the exception of the attempt itself
Reraised(error) == [text |-> error, cause |-> error]

\* a RateLimitError: the Retry-After header of its response and the number
\* after 'retry after' in its message (NoValue: its message has none)
Throttling(header, said) == [header |-> header, said |-> said]

RateLimitErrors ==
    {Throttling(Absent, NoValue), Throttling(Secs(0), NoValue),
     Throttling(Secs(20), NoValue), Throttling(Date(40), 150)}

\* _extract_retry_after: float() of the header, else the number in the
\* message, else None
ExtractRetryAfter(e) ==
    IF e.header.k = "secs" THEN e.header.v ELSE e.said

\* outcomes of one call of completion()/embedding(); retry_after is what
\* _extract_retry_after returns for a RateLimitError (NoValue: None)
Succeeds(headers) ==
    [error |-> NoExc, retry_after |-> NoValue, headers |-> headers]

Fails(error, retry_after) ==
    [error |-> error, retry_after |-> retry_after, headers |-> NoHeaders]

Responses ==
    {Succeeds(NoHeaders), Succeeds([NoHeaders EXCEPT !.RA = Secs(20)]),
     Fails(APIError, NoValue), Fails(UnexpectedError, NoValue)}
        \cup {Fails(RateLimitError, ExtractRetryAfter(e)) : e \in RateLimitErrors}

\* the except clauses without the cap on the wait after a RateLimitError
RetryWaitUncapped(method, error, retry_after, attempt) ==
    IF error = RateLimitError
    THEN IF retry_after # NoValue /\ retry_after # 0
         THEN retry_after ELSE (2 ^ attempt) * 10
    ELSE IF error = APIError /\ method = "generate"
    THEN Min((2 ^ attempt) * 5, 60)
    ELSE IF method = "generate" /\ attempt >= MaxRetries - 1
    THEN 0
    ELSE (2 ^ attempt) * 2

\* the wait_time of the except clause that handles error ('retry_after if
\* retry_after else ...': None and 0.0 both take the else branch)
RetryWait(method, error, retry_after, attempt) ==
    IF error = RateLimitError
    THEN Min(IF retry_after # NoValue /\ retry_after # 0
             THEN retry_after ELSE (2 ^ attempt) * 10, 120)
    ELSE IF error = APIError /\ method = "generate"
    THEN Min((2 ^ attempt) * 5, 60)
    ELSE IF method = "generate" /\ attempt >= MaxRetries - 1
    THEN 0
    ELSE (2 ^ attempt) * 2

\* pc: idle, acquire (in _try_acquire), sleep (in the sleep of acquire), call
\* (in completion/embedding), backoff (in the sleep of an except clause), done;
\* attempt: the loop variable; last_error: the variable of _call_with_retry;
\* invoked: calls of completion/embedding made; failure: what the latest
\* failed one raised; returned: the call returned a result; terminal: the
\* exception that left the call; took: tokens its acquire() calls consumed;
\* hot: an acquire() granted during a cooldown; hint, failed_at, reported: for
\* the sleep of an except clause, what _extract_retry_after returned, the
\* clock reading, and the deadline report_rate_limit_error stored
WorkerIdle ==
    [pc |-> "idle", method |-> "none", attempt |-> 0, wake |-> 0,
     last_error |-> NoExc, invoked |-> 0, failure |-> NoExc,
     returned |-> FALSE, terminal |-> NoTerminal,
     took |-> 0, hot |-> FALSE,
     hint |-> NoValue, failed_at |-> 0, reported |-> NoDeadline]

InitProvider ==
    /\ workers = [w \in Workers |-> WorkerIdle]
    /\ granted = 0

\* generate(prompt) / embed(text): entry, the first iteration begins
WorkerCall(w, method) ==
    /\ workers[w].pc = "idle"
    /\ workers' = [workers EXCEPT ![w] =
                      [WorkerIdle EXCEPT !.pc = "acquire", !.method = method]]
    /\ UNCHANGED <<limiter, agent, granted>>

\* _try_acquire without the lock: the decrement of a thread is overwritten
\* by that of a thread that read the same token count
WorkerAcquireLostUpdate(w) ==
    /\ workers[w].pc = "acquire"
    /\ IF ~enabled
       THEN /\ workers' = [workers EXCEPT ![w].pc = "call"]
            /\ UNCHANGED <<tokens, last_refill, granted>>
       ELSE LET r == TryAcquire(tokens, last_refill, retry_after_until, mono)
            IN  /\ tokens' = IF r.wait = 0 /\ \E v \in Workers \ {w} :
                                                  workers[v].pc = "call"
                              THEN r.tokens + TokenScale(rpm)
                              ELSE r.tokens
                /\ last_refill' = r.last_refill
                /\ IF r.wait = 0
                   THEN /\ workers' = [workers EXCEPT ![w].pc = "call",
                               ![w].took = @ + 1,
                               ![w].hot = InCooldown(retry_after_until, mono)]
                        /\ granted' = granted + 1
                   ELSE /\ workers' = [workers EXCEPT ![w].pc = "sleep",
                               ![w].wake = mono + Min(r.wait, SleepChunk)]
                        /\ UNCHANGED granted
    /\ hist' = Throttled(hist)
    /\ UNCHANGED <<agent, cfg, retry_after_until, mono, acq>>

\* the call of the provider not waiting for acquire() to grant
WorkerAcquireUnchecked(w) ==
    /\ workers[w].pc = "acquire"
    /\ IF ~enabled
       THEN /\ workers' = [workers EXCEPT ![w].pc = "call"]
            /\ UNCHANGED <<tokens, last_refill, granted>>
       ELSE LET r == TryAcquire(tokens, last_refill, retry_after_until, mono)
            IN  /\ tokens' = r.tokens
                /\ last_refill' = r.last_refill
                /\ IF r.wait = 0
                   THEN /\ workers' = [workers EXCEPT ![w].pc = "call",
                               ![w].took = @ + 1,
                               ![w].hot = InCooldown(retry_after_until, mono)]
                        /\ granted' = granted + 1
                   ELSE /\ workers' = [workers EXCEPT ![w].pc = "call",
                               ![w].hot = InCooldown(retry_after_until, mono)]
                        /\ UNCHANGED granted
    /\ hist' = Throttled(hist)
    /\ UNCHANGED <<agent, cfg, retry_after_until, mono, acq>>

\* self.rate_limiter.acquire(): one iteration of its loop
WorkerAcquire(w) ==
    /\ workers[w].pc = "acquire"
    /\ IF ~enabled
       THEN /\ workers' = [workers EXCEPT ![w].pc = "call"]
            /\ UNCHANGED <<tokens, last_refill, granted>>
       ELSE LET r == TryAcquire(tokens, last_refill, retry_after_until, mono)
            IN  /\ tokens' = r.tokens
                /\ last_refill' = r.last_refill
                /\ IF r.wait = 0
                   THEN /\ workers' = [workers EXCEPT ![w].pc = "call",
                               ![w].took = @ + 1,
                               ![w].hot = InCooldown(retry_after_until, mono)]
                        /\ granted' = granted + 1
                   ELSE /\ workers' = [workers EXCEPT ![w].pc = "sleep",
                               ![w].wake = mono + Min(r.wait, SleepChunk)]
                        /\ UNCHANGED granted
    /\ hist' = Throttled(hist)
    /\ UNCHANGED <<agent, cfg, retry_after_until, mono, acq>>

\* time.sleep(min(wait_time, 1.0)) of acquire() has elapsed
WorkerWake(w) ==
    /\ workers[w].pc = "sleep"
    /\ mono >= workers[w].wake
    /\ workers' = [workers EXCEPT ![w].pc = "acquire", ![w].wake = 0]
    /\ UNCHANGED <<limiter, agent, granted>>

\* completion()/embedding() returns or raises, and the rest of the iteration
\* up to its sleep
ProviderResponds(w, resp) ==
    LET me == workers[w]
        counted == [me EXCEPT !.invoked = @ + 1,
                              !.failure = IF resp.error = NoExc THEN @
                                          ELSE resp.error]
        ra == ResolveRetryAfter(resp.headers)
    IN  /\ me.pc = "call"
        /\ IF resp.error = NoExc
           THEN /\ workers' = [workers EXCEPT ![w] =
                                  [counted EXCEPT !.pc = "done", !.returned = TRUE]]
                /\ IF me.method = "generate" /\ enabled /\ ra # NoValue /\ ra > 0
                   THEN retry_after_until' = mono + ra
                   ELSE UNCHANGED retry_after_until
                /\ UNCHANGED tokens
           ELSE /\ IF resp.error = RateLimitError /\ enabled
                   THEN /\ retry_after_until' = mono + ReportWait(resp.retry_after)
                        /\ tokens' = 0
                   ELSE UNCHANGED <<tokens, retry_after_until>>
                /\ workers' = [workers EXCEPT ![w] =
                      IF /\ me.method = "embed"
                         /\ resp.error # RateLimitError
                         /\ me.attempt = MaxRetries - 1
                      THEN [counted EXCEPT !.pc = "done",
                                           !.terminal = Reraised(resp.error)]
                      ELSE [counted EXCEPT
                               !.pc = "backoff",
                               !.hint = resp.retry_after,
                               !.failed_at = mono,
                               !.reported =
                                   IF resp.error = RateLimitError /\ enabled
                                   THEN mono + ReportWait(resp.retry_after)
                                   ELSE NoDeadline,
                               !.last_error = IF me.method = "generate"
                                              THEN resp.error ELSE @,
                               !.wake = mono + RetryWait(me.method, resp.error,
                                                         resp.retry_after,
                                                         me.attempt)]]
        /\ hist' = Throttled(hist)
        /\ UNCHANGED <<agent, cfg, last_refill, mono, acq, granted>>

\* the sleep of the except clause has elapsed: the next iteration, or the
\* raise after the loop
WorkerResume(w) ==
    LET me == workers[w]
    IN  /\ me.pc = "backoff"
        /\ mono >= me.wake
        /\ workers' = [workers EXCEPT ![w] =
              IF me.attempt + 1 < MaxRetries
              THEN [me EXCEPT !.pc = "acquire", !.attempt = @ + 1, !.wake = 0,
                              !.hint = NoValue, !.failed_at = 0,
                              !.reported = NoDeadline]
              ELSE [me EXCEPT !.pc = "done", !.wake = 0,
                              !.hint = NoValue, !.failed_at = 0,
                              !.reported = NoDeadline,
                              !.terminal = IF me.method = "generate"
                                           THEN CallFailed(me.last_error)
                                           ELSE EmbeddingFailed]]
        /\ UNCHANGED <<limiter, agent, granted>>

\* the caller has the result or the exception
WorkerReturn(w) ==
    /\ workers[w].pc = "done"
    /\ workers' = [workers EXCEPT ![w] = WorkerIdle]
    /\ UNCHANGED <<limiter, agent, granted>>
(***************************************************************************)
(* Inputs of the agent                                                     *)
(***************************************************************************)
\* command strings an LLM may propose
CmdGetPods == <<"k", "u", "b", "e", "c", "t", "l", " ", "g", "e", "t", " ", "p", "o", "d", "s", " ", "-", "n", " ", "d", "e", "f", "a", "u", "l", "t">>

CmdLogsPadded == <<" ", " ", "k", "u", "b", "e", "c", "t", "l", " ", "l", "o", "g", "s", " ", "w", "e", "b", "-", "1", " ", "-", "n", " ", "d", "e", "f", "a", "u", "l", "t", " ", "-", "-", "t", "a", "i", "l", "=", "1", "0", "0", " ">>

CmdTop == <<"k", "u", "b", "e", "c", "t", "l", " ", "t", "o", "p", " ", "p", "o", "d", "s">>

CmdOpenQuote == <<"k", "u", "b", "e", "c", "t", "l", " ", "d", "e", "s", "c", "r", "i", "b", "e", " ", "p", "o", "d", " ", "\"", "w", "e", "b", "-", "1", " ", "-", "n", " ", "d", "e", "f", "a", "u", "l", "t">>

CmdDelete == <<"k", "u", "b", "e", "c", "t", "l", " ", "d", "e", "l", "e", "t", "e", " ", "p", "o", "d", " ", "w", "e", "b", "-", "1", " ", "-", "n", " ", "d", "e", "f", "a", "u", "l", "t">>

CmdPipeDelete == <<"k", "u", "b", "e", "c", "t", "l", " ", "g", "e", "t", " ", "p", "o", "d", "s", " ", "-", "n", " ", "d", "e", "f", "a", "u", "l", "t", " ", "|", " ", "k", "u", "b", "e", "c", "t", "l", " ", "d", "e", "l", "e", "t", "e", " ", "p", "o", "d", " ", "w", "e", "b", "-", "1", " ", "-", "n", " ", "d", "e", "f", "a", "u", "l", "t">>

\* a proposal longer than the planner accepts
SixCommands ==
    <<CmdLogsPadded, CmdOpenQuote, CmdOpenQuote, CmdOpenQuote, CmdGetPods, CmdTop>>

\* five commands off the whitelist followed by one on it
CmdExec == <<"k", "u", "b", "e", "c", "t", "l", " ", "e", "x", "e", "c", " ", "w", "e", "b", "-", "1">>

CmdScale == <<"k", "u", "b", "e", "c", "t", "l", " ", "s", "c", "a", "l", "e">>

CmdApply == <<"k", "u", "b", "e", "c", "t", "l", " ", "a", "p", "p", "l", "y">>

CmdShell == <<"r", "m", " ", "-", "r", "f", " ", "/">>

LateCommand == <<CmdDelete, CmdExec, CmdScale, CmdApply, CmdShell, CmdGetPods>>

\* a list with a command the re-check blocks and one that cannot be split
MixedCommands == <<CmdDelete, CmdTop, CmdOpenQuote, CmdGetPods>>

ProposableCommands ==
    {CmdGetPods, CmdLogsPadded, CmdTop, CmdOpenQuote, CmdDelete, CmdPipeDelete}

\* Length up to which every list of proposable commands is an input.
MaxProposed == 1

CommandLists == UNION {[1..n -> ProposableCommands] : n \in 0..MaxProposed}

\* {"commands": [...]}
CommandsJson(list) ==
    JDict([commands |-> JList([i \in 1..Len(list) |-> JStr(list[i])])])

\* responses to the planning prompt
PlanTexts ==
    {CleanJson(CommandsJson(list)) : list \in CommandLists}
      \cup { FencedJson(CommandsJson(<<CmdDelete, CmdTop>>)),
             CleanJson(CommandsJson(<<CmdGetPods, CmdPipeDelete>>)),
             CleanJson(CommandsJson(SixCommands)),
             CleanJson(CommandsJson(LateCommand)),
             ProseJson(CommandsJson(<<CmdGetPods>>)),
             Garbage,
             EmptyText,
             CleanJson(JList(<<JStr(CmdGetPods)>>)),
             CleanJson(JDict([note |-> JStr(<<"nothing to run">>)])),
             CleanJson(JDict([commands |-> JNull])),
             CleanJson(JDict([commands |-> JStr(CmdTop)])),
             CleanJson(JDict([commands |-> JList(<<JStr(CmdGetPods), JNum(700)>>)])) }

RestartPod ==
    JDict([action_type |-> JStr(<<"restart_pod">>), target |-> JStr(<<"web-1">>),
           reasoning |-> JStr(<<"the pod is out of memory">>),
           params |-> JDict([namespace |-> JStr(<<"default">>)])])

DeleteNamespace ==
    JDict([action_type |-> JStr(<<"delete_namespace">>),
           target |-> JStr(<<"default">>)])

\* responses to the analysis prompt
SynthTexts ==
    { CleanJson(JDict([analysis |-> JStr(<<"web-1 was OOM-killed">>),
                       confidence_score |-> JNum(85),
                       proposed_actions |-> JList(<<RestartPod>>)])),
      FencedJson(JDict([analysis |-> JStr(<<"namespace is broken">>),
                        confidence_score |-> JNum(150),
                        proposed_actions |-> JList(<<DeleteNamespace, RestartPod>>)])),
      ProseJson(JDict([analysis |-> JStr(<<"nothing conclusive">>)])),
      CleanJson(JDict([analysis |-> JStr(<<"probably memory">>),
                       confidence_score |-> JStr(<<"0", ".", "9">>)])),
      CleanJson(JDict([analysis |-> JStr(<<"probably memory">>),
                       confidence_score |-> JStr(<<"h", "i", "g", "h">>)])),
      CleanJson(JDict([confidence_score |-> JNull])),
      CleanJson(JDict([proposed_actions |-> JList(<<JStr(<<"restart_pod">>)>>)])),
      CleanJson(JList(<<JStr(<<"restart web-1">>)>>)),
      CleanJson(EmptyDict),
      Garbage,
      LongGarbage,
      EmptyText }

\* responses to the corrective prompt of _parse_decision
RetryTexts ==
    { CleanJson(JDict([analysis |-> JStr(<<"reformatted">>),
                       confidence_score |-> JNum(50),
                       proposed_actions |-> JList(<<>>)])),
      CleanJson(JList(<<JStr(<<"restart web-1">>)>>)),
      Garbage }

\* outcomes of "kubectl get pods -o name" and of the other listings
PodListings ==
    { Exit(0, <<<<"p", "o", "d", "/", "w", "e", "b", "-", "1">>, <<"p", "o", "d", "/", "a", "p", "i", "-", "7">>>>, <<>>),
      Exit(0, <<<<"p", "o", "d", "/", "a", "p", "i", "-", "7">>>>, <<>>),
      Exit(1, <<>>, <<"error: the server doesn't have a resource type">>),
      TimeoutExpired }

DeployListings == { Exit(0, <<<<"d", "e", "p", "l", "o", "y", "m", "e", "n", "t", ".", "a", "p", "p", "s", "/", "w", "e", "b">>>>, <<>>), LaunchError }

OtherListings == { Exit(0, <<>>, <<>>), TimeoutExpired }

Listings ==
    {<<p, d, s, r>> : p \in PodListings, d \in DeployListings,
                      s \in OtherListings, r \in OtherListings}

\* outcomes of a diagnostic command
ProcOutcomes ==
    { Exit(0, <<"NAME READY STATUS">>, <<>>),
      Exit(1, <<>>, <<"Error from server (NotFound)">>),
      Exit(1, <<>>, <<>>),
      TimeoutExpired,
      LaunchError }

Searches == {SearchRaises, SearchEmpty, SearchHitBare, SearchHit}

AgentEvents == {WebEvent, WebEventProd, LokiEvent, PrometheusEvent}

(***************************************************************************)
(* Specifications                                                          *)
(***************************************************************************)
\* the limiter on its own, for every way of constructing it
Init == InitLimiter /\ InitAgent /\ InitProvider

SpecLimiter == Init /\ [][NextLimiter]_vars

\* the limiter of a provider on its own: 3 requests per minute, no burst
\* size, rate limiting on or off
InitFeedback == Init /\ rpm = <<3, 1>> /\ burst_size = NoBurst

SpecFeedback == InitFeedback /\ [][NextLimiter]_vars

\* threads calling generate and embed on one provider, every outcome of the
\* provider calls, while the clock advances
NextWorkers ==
    \/ \E w \in Workers : \E method \in Methods : WorkerCall(w, method)
    \/ \E w \in Workers : WorkerAcquire(w)
    \/ \E w \in Workers : WorkerWake(w)
    \/ \E w \in Workers : \E resp \in Responses : ProviderResponds(w, resp)
    \/ \E w \in Workers : WorkerResume(w)
    \/ \E w \in Workers : WorkerReturn(w)
    \/ Tick

\* LLMProvider.__init__ passes the rate and the enabled flag, no burst size
InitWorkers == Init /\ burst_size = NoBurst

SpecWorkers == InitWorkers /\ [][NextWorkers]_vars

(***************************************************************************)
(* The same threads over unbounded time.  The code uses clock readings     *)
(* only in differences and comparisons, so the model keeps every time      *)
(* stamp relative to the present reading: when TickLen seconds pass, mono  *)
(* stays as it is and the stamps move back by TickLen.  A deadline or the  *)
(* end of a sleep that has passed, and a refill time older than the time   *)
(* the bucket takes to fill, are kept at the value that behaves the same.  *)
(* The count of grants starts anew with every reading.  Time passes only   *)
(* when every thread that can run has run.                                 *)
(***************************************************************************)
\* seconds an empty bucket takes to fill up
FillTime == (max_tokens * TokenScale(rpm)) \div RefillPerSecond(rpm)

\* w can take a step at the present clock reading
Ready(w) ==
    \/ workers[w].pc \in {"acquire", "done"}
    \/ workers[w].pc \in {"sleep", "backoff"} /\ mono >= workers[w].wake

Elapse ==
    /\ \A w \in Workers : ~Ready(w)
    /\ last_refill' = Max(last_refill - TickLen, mono - FillTime)
    /\ retry_after_until' =
          IF retry_after_until = NoDeadline \/ retry_after_until - TickLen <= mono
          THEN NoDeadline
          ELSE retry_after_until - TickLen
    /\ workers' = [w \in Workers |->
                      [workers[w] EXCEPT !.wake = Max(@ - TickLen, mono)]]
    /\ granted' = 0
    /\ UNCHANGED <<agent, cfg, tokens, mono, acq, hist>>

\* the provider's limiter at 3 requests per minute
InitFair == InitWorkers /\ enabled /\ rpm = <<3, 1>>

NextFair ==
    \/ \E w \in Workers : \E method \in Methods : WorkerCall(w, method)
    \/ \E w \in Workers : WorkerAcquire(w)
    \/ \E w \in Workers : WorkerWake(w)
    \/ \E w \in Workers : \E resp \in Responses : ProviderResponds(w, resp)
    \/ \E w \in Workers : WorkerResume(w)
    \/ \E w \in Workers : WorkerReturn(w)
    \/ Elapse

\* every thread that can run does run, every call of the provider returns
\* or raises, and time passes
Fairness ==
    /\ WF_vars(Elapse)
    /\ \A w \in Workers :
           /\ WF_vars(WorkerAcquire(w))
           /\ WF_vars(WorkerWake(w))
           /\ WF_vars(\E resp \in Responses : ProviderResponds(w, resp))
           /\ WF_vars(WorkerResume(w))
           /\ WF_vars(WorkerReturn(w))

SpecFair == InitFair /\ [][NextFair]_vars /\ Fairness

\* the limiter as LLMProvider.__init__ constructs it for the agent
InitProviderLimiter ==
    /\ rpm = ProviderRPM
    /\ enabled = TRUE
    /\ burst_size = NoBurst
    /\ max_tokens = MaxTokensInit(ProviderRPM, NoBurst)
    /\ tokens = max_tokens * TokenScale(ProviderRPM)
    /\ last_refill = 0
    /\ retry_after_until = NoDeadline
    /\ mono = 0
    /\ acq = AcqIdle
    /\ hist = HistInit

InitPipeline == InitProviderLimiter /\ InitAgent /\ InitProvider

\* the agent with every outcome of its collaborators, at one wall-clock time
\* (an input that the outcome of an earlier one makes irrelevant is fixed)
NextAgent ==
    \/ \E e \in AgentEvents : AnalyzeCall(e)
    \/ \E outs \in Listings : DiscoverStep(outs)
    \/ \E failing \in Failing :
         \E search \in IF failing < MaxRetries THEN Searches ELSE {SearchEmpty} :
           \E fetch_ok \in IF search = SearchHit THEN BOOLEAN ELSE {TRUE} :
               ContextStep(failing, search, fetch_ok)
    \/ \E failing \in Failing :
         \E text \in IF failing < MaxRetries THEN PlanTexts ELSE {EmptyText} :
             PlanStep(failing, text)
    \/ \E out \in ProcOutcomes : ExecStep(out)
    \/ \E failing \in Failing :
         \E text \in IF failing < MaxRetries THEN SynthTexts ELSE {EmptyText} :
             SynthesizeStep(failing, text)
    \/ \E failing \in Failing :
         \E text \in IF failing < MaxRetries THEN RetryTexts ELSE {Garbage} :
             ReformatStep(failing, text)
    \/ \E commands \in CommandLists \cup {MixedCommands} :
           RunDiagnosticsCall(commands)
    \/ Return

SpecAgent == InitPipeline /\ [][NextAgent]_vars

(***************************************************************************)
(* The dedup cache over time: the wall clock advances, the collaborators   *)
(* behave well.                                                            *)
(***************************************************************************)
\* Number of wall-clock ticks the cache is observed for.
MaxWallTicks == 4

\* the wall clock advances in steps of half the TTL
WallStep == CacheTTL \div 2

WallTick ==
    /\ wall + WallStep <= MaxWallTicks * WallStep
    /\ wall' = wall + WallStep
    /\ UNCHANGED <<limiter, provider, concurrent, alert_cache, an, executed, streak>>

DedupEvents ==
    {WebEvent, WebEventProd, ColonServiceEvent, ColonDomainEvent, LokiEvent,
     PrometheusEvent}

DedupListing ==
    << Exit(0, <<<<"p", "o", "d", "/", "w", "e", "b", "-", "1">>>>, <<>>), Exit(0, <<<<"d", "e", "p", "l", "o", "y", "m", "e", "n", "t", ".", "a", "p", "p", "s", "/", "w", "e", "b">>>>, <<>>),
       Exit(0, <<>>, <<>>), Exit(0, <<>>, <<>>) >>

NextDedup ==
    \/ \E e \in DedupEvents : AnalyzeCall(e)
    \/ DiscoverStep(DedupListing)
    \/ ContextStep(0, SearchEmpty, TRUE)
    \/ PlanStep(0, CleanJson(CommandsJson(<<CmdGetPods>>)))
    \/ ExecStep(Exit(0, <<"NAME READY STATUS">>, <<>>))
    \/ \E failing \in {0, MaxRetries} :
         \E text \in IF failing = 0
                     THEN {Garbage, CleanJson(JDict([confidence_score |-> JNum(85)]))}
                     ELSE {EmptyText} :
             SynthesizeStep(failing, text)
    \/ ReformatStep(MaxRetries, Garbage)
    \/ Return
    \/ WallTick

SpecDedup == InitPipeline /\ [][NextDedup]_vars


(***************************************************************************)
(* The purge of the dedup cache: the wall clock advances in thirds of the  *)
(* TTL, so that a call can find one entry younger than the TTL and another *)
(* older than twice the TTL.                                               *)
(***************************************************************************)
\* Number of thirds of the TTL the cache is observed for.
MaxWallThirds == 7

WallThird == CacheTTL \div 3

WallTickThird ==
    /\ wall + WallThird <= MaxWallThirds * WallThird
    /\ wall' = wall + WallThird
    /\ UNCHANGED <<limiter, provider, concurrent, alert_cache, an, executed, streak>>

PurgeEvents == {WebEvent, ColonServiceEvent, LokiEvent}

NextPurge ==
    \/ \E e \in PurgeEvents : AnalyzeCall(e)
    \/ DiscoverStep(DedupListing)
    \/ ContextStep(0, SearchEmpty, TRUE)
    \/ PlanStep(0, CleanJson(CommandsJson(<<CmdGetPods>>)))
    \/ ExecStep(Exit(0, <<"NAME READY STATUS">>, <<>>))
    \/ SynthesizeStep(0, CleanJson(JDict([confidence_score |-> JNum(85)])))
    \/ Return
    \/ WallTickThird

SpecPurge == InitPipeline /\ [][NextPurge]_vars

(***************************************************************************)
(* Threads calling analyze() on one agent at once                          *)
(***************************************************************************)
ConcurrentEvents == {WebEvent, WebEventProd, ColonServiceEvent, LokiEvent}

NextConcurrent ==
    \/ \E t \in Callers : \E e \in ConcurrentEvents : ConcurrentCall(t, e)
    \/ \E t \in Callers : CheckCache(t)
    \/ \E t \in Callers : ReadCache(t)
    \/ \E t \in Callers : StampCache(t)
    \/ \E t \in Callers : PurgeRead(t)
    \/ \E t \in Callers : PurgeAssign(t)
    \/ \E t \in Callers : PipelineDone(t)
    \/ \E t \in Callers : ConcurrentReturn(t)
    \/ WallTick

SpecConcurrent == InitPipeline /\ [][NextConcurrent]_vars

(***************************************************************************)
(* _extract_json on its own, for texts put together from an object, a list,*)
(* prose and code fences                                                   *)
(***************************************************************************)
ObjectA == <<"{", "\"a\"", ":", "1", "}">>

ObjectB == <<"{", "\"b\"", ":", " ", "[", "1", ",", "null", "]", "}">>

ListOfOne == <<"[", "\"a\"", "]">>

Segments ==
    { ObjectA, ObjectB, ListOfOne,
      <<"Here", " ", "you", " ", "go:", "\n">>,
      <<Fence, "json", "\n">>, <<"\n", Fence, "\n">>, <<Fence>>,
      <<" ">>, <<"{">>, <<"]">>, <<"\"a\"">> }

\* Number of segments up to which every text is an input.
MaxSegments == 3

ReplyTexts ==
    {Concat(segs) : segs \in UNION {[1..n -> Segments] : n \in 0..MaxSegments}}

NextExtract ==
    \/ \E s \in ReplyTexts : ExtractJsonCall(s)
    \/ Return

SpecExtract == InitPipeline /\ [][NextExtract]_vars
(***************************************************************************)
(* Properties of SmartRateLimiter                                          *)
(***************************************************************************)
OneToken == TokenScale(rpm)

\* 60 / requests_per_minute, the seconds one token takes to accumulate
SecondsPerToken == TokenScale(rpm) \div RefillPerSecond(rpm)

\* an acquire() issued now would get its token in its first _try_acquire
CanAcquireNow == TryAcquire(tokens, last_refill, retry_after_until, mono).wait = 0

AcquireStep == AcquireTry \/ AcquireWake \/ AcquireReturn
               \/ \E to \in Timeouts : AcquireCall(to)

Fresh == enabled /\ hist.pristine /\ burst_size = NoBurst

\* C6 as stated: a freshly constructed enabled limiter lets acquire() succeed
\* immediately exactly max(1, round(requestsPerMinute)) times, and then the
\* next acquire() must wait.
C6_RoundCapacity ==
    Fresh => /\ hist.n_true <= Max(1, RoundOf(rpm))
             /\ (CanAcquireNow <=> hist.n_true < Max(1, RoundOf(rpm)))

\* C6 amended: a freshly constructed enabled limiter (no burst_size given)
\* lets acquire() succeed immediately exactly max(1, int(requestsPerMinute))
\* times (the rate is truncated, not rounded), and the next acquire() must
\* wait; the bucket then holds the remaining whole tokens.
C6_TruncCapacity ==
    Fresh => /\ hist.n_true <= Max(1, IntOf(rpm))
             /\ (CanAcquireNow <=> hist.n_true < Max(1, IntOf(rpm)))
             /\ tokens = (Max(1, IntOf(rpm)) - hist.n_true) * OneToken

\* C6 witness: rate 1.5 (int 1, round 2): one acquire() returned True and the
\* second, issued at the same instant, found no token and returned False.
C6_Witness ==
    /\ Fresh /\ rpm = <<3, 2>> /\ hist.n_true = 1
    /\ acq.pc = "done" /\ ~acq.result /\ acq.wait > 0

\* C7 as stated: after reportThrottled(h) at time t with h > 0, no acquire()
\* returns true before t + h (t, h: the most recent such report).
C7_NoAcquireBeforeReportDeadline ==
    [][(AcquireTry /\ acq'.pc = "done" /\ acq'.result)
          => mono >= hist.report_deadline]_vars

\* C7 amended: on an enabled limiter reportThrottled(h) at time t with h > 0
\* sets the token count to zero and the forced-cooldown deadline to t + h,
\* and no acquire() takes a token or returns true while the clock is before
\* the stored deadline, whatever the token count; a later reportThrottled or
\* updateFromFeedback replaces the deadline and may shorten it.
C7_CooldownPrecedence ==
    [][/\ \A h \in Hints \ {0} :
            (enabled /\ ReportRateLimitError(h))
                => (tokens' = 0 /\ retry_after_until' = mono + h)
       /\ (AcquireTry /\ InCooldown(retry_after_until, mono))
            => /\ ~(acq'.pc = "done" /\ acq'.result)
               /\ acq'.took = acq.took
               /\ tokens' = tokens]_vars

\* C7 witness: acquire() gave up (returned False) inside the cooldown that a
\* report installed, although the refilled bucket held a whole token.
C7_Witness ==
    /\ acq.pc = "done" /\ ~acq.result
    /\ InCooldown(acq.pre_until, acq.at)
    /\ hist.report_deadline = acq.pre_until
    /\ Refill(acq.pre_tokens, acq.at - acq.pre_last) >= OneToken

\* C8: in every reachable state 0 <= tokens <= capacity, and so is every
\* value read through available_tokens.
C8_TokenBounds ==
    /\ 0 <= tokens /\ tokens <= max_tokens * OneToken
    /\ hist.avail # NoValue
          => (0 <= hist.avail /\ hist.avail <= max_tokens * OneToken)

\* C8 witness: a token was taken after an idle period long enough for the
\* uncapped refill to exceed the capacity.
C8_Witness ==
    /\ acq.pc = "done" /\ acq.result /\ enabled
    /\ acq.pre_tokens + (acq.at - acq.pre_last) * RefillPerSecond(rpm)
          > max_tokens * OneToken
    /\ tokens = (max_tokens - 1) * OneToken

C10_TrueIffConsumed == acq.pc = "done" => (acq.result <=> acq.took = 1)

\* C10 amended: on an enabled limiter acquire(timeout) returns true exactly
\* when it has consumed one token, and returns false only when the wait for
\* a token would end after the timeout; a false return consumes no token and
\* no step of acquire changes the forced-cooldown deadline.  (A disabled
\* limiter returns true without any token accounting.)
C10_AcquireResult ==
    /\ [](acq.pc = "done" /\ enabled
            => /\ acq.took \in {0, 1}
               /\ acq.result <=> acq.took = 1
               /\ ~acq.result
                    => /\ acq.timeout # NoTimeout
                       /\ acq.wait > 0
                       /\ (acq.at - acq.start_time) + acq.wait > acq.timeout)
    /\ [][AcquireStep => retry_after_until' = retry_after_until]_vars

\* C10 witness: after sleeping at least once, acquire(40) returned False
\* inside a cooldown, having consumed nothing.
C10_Witness ==
    /\ acq.pc = "done" /\ enabled /\ ~acq.result /\ acq.took = 0
    /\ acq.timeout = 40 /\ acq.at > acq.start_time
    /\ InCooldown(retry_after_until, acq.at)

\* C20 as stated: because report_rate_limit_error drains the bucket, at the
\* instant the cooldown deadline it installed passes the bucket holds less
\* than one token, so an acquire() issued exactly at the deadline does not
\* succeed immediately, for every cooldown length and every rate.
C20_DrainedAtDeadline ==
    (/\ enabled
     /\ retry_after_until # NoDeadline
     /\ hist.report_deadline = retry_after_until
     /\ mono = retry_after_until)
        => /\ Refill(tokens, mono - last_refill) < OneToken
           /\ ~CanAcquireNow

\* C29: a blocked acquire() does not hold the lock while it sleeps and sleeps
\* at most one second before it evaluates _try_acquire again, so that
\* available_tokens, report_rate_limit_error and update_from_headers of other
\* threads get the lock; and acquire() returns True only from an evaluation
\* that found no cooldown active, also when the cooldown was reported while
\* it was waiting.
C29_SleepOutsideLock ==
    /\ ~acq.locked
    /\ acq.pc = "sleep" => acq.wake <= mono + SleepChunk
    /\ (enabled /\ acq.pc = "done" /\ acq.result)
          => ~InCooldown(acq.pre_until, acq.at)

\* C29 witness: acquire() was waiting when another thread reported a rate
\* limit error; it evaluated again after the report, found the cooldown
\* and sleeps again, for one second, inside the cooldown.
C29_Witness ==
    /\ enabled
    /\ acq.pc = "sleep"
    /\ hist.report_deadline > 0
    /\ retry_after_until = hist.report_deadline
    /\ acq.start_time < hist.report_deadline - 40
    /\ acq.wake - SleepChunk >= hist.report_deadline - 20
    /\ acq.wake - SleepChunk < retry_after_until
    /\ acq.wake = mono + SleepChunk

\* what a header value resolves to: N for plain seconds N, d for an HTTP-date
\* d seconds ahead, r for an epoch reset r seconds ahead; NoValue otherwise
Resolves(x) ==
    IF x.k \in {"secs", "date", "epoch"} THEN x.v ELSE NoValue

\* the first source, in the order Retry-After, X-Retry-After,
\* X-RateLimit-Reset, that resolves to a value
FirstResolvable(h) ==
    LET order == <<h.RA, h.ra, h.XRA, h.xra, h.RESET, h.reset>>
        good == {i \in 1..Len(order) : Resolves(order[i]) # NoValue}
    IN  IF good = {} THEN NoValue
        ELSE Resolves(order[CHOOSE i \in good : \A j \in good : i <= j])

\* C30 as stated: update_from_headers takes the cooldown from the first
\* resolvable source in the order Retry-After, X-Retry-After,
\* X-RateLimit-Reset; a later source is used whenever every earlier one is
\* absent or does not resolve.
C30_FirstResolvableSource ==
    [][\A h \in HeaderSets :
          (enabled /\ UpdateFromHeaders(h)) =>
              LET v == FirstResolvable(h)
              IN  IF v # NoValue /\ v > 0
                  THEN retry_after_until' = mono + v
                  ELSE retry_after_until' = retry_after_until]_vars

\* the hint of update_from_headers(h) is positive
PositiveHint(h) == ResolveRetryAfter(h) # NoValue /\ ResolveRetryAfter(h) > 0

\* C33 as stated: update_from_headers with a positive resolved hint v at
\* time t sets the cooldown deadline to t + v, whatever the deadline was, and
\* leaves the token count and the refill time as they are; with no positive
\* hint it changes nothing.
C33_FeedbackReplacesDeadline ==
    [][\A h \in HeaderSets :
          UpdateFromHeaders(h) =>
              /\ PositiveHint(h) => retry_after_until' = mono + ResolveRetryAfter(h)
              /\ ~PositiveHint(h) => retry_after_until' = retry_after_until
              /\ UNCHANGED <<tokens, last_refill>>]_vars

\* C33 for the limiter as it is: an enabled limiter does as stated, a
\* disabled one ignores the hint.
C33_FeedbackReplacesDeadlineEnabled ==
    [][\A h \in HeaderSets :
          UpdateFromHeaders(h) =>
              /\ (enabled /\ PositiveHint(h))
                    => retry_after_until' = mono + ResolveRetryAfter(h)
              /\ ~(enabled /\ PositiveHint(h))
                    => retry_after_until' = retry_after_until
              /\ UNCHANGED <<tokens, last_refill>>]_vars

\* a hint has moved the deadline of a reported throttling to an earlier time
C33_Witness ==
    /\ enabled
    /\ hist.report_deadline > 0
    /\ retry_after_until # NoDeadline
    /\ retry_after_until < hist.report_deadline
    /\ mono < retry_after_until

\* C35: when available_tokens has returned at least one token, an iteration
\* of acquire() at the same instant returns True without sleeping; and the
\* read changes neither the token count, nor the refill time, nor the
\* cooldown deadline.
C35_AvailableMeansAdmitted ==
    [][/\ ( /\ AcquireTry
            /\ hist.avail # NoValue
            /\ hist.avail >= TokenScale(rpm) )
              => (acq'.pc = "done" /\ acq'.result)
       /\ AvailableTokens
              => UNCHANGED <<tokens, last_refill, retry_after_until>>]_vars
(***************************************************************************)
(* Properties of the agent                                                 *)
(***************************************************************************)
Returned == an.decision[1]

\* the text str(e) of the exception that ends a call of generate in which
\* every attempt failed
AllAttemptsFailed == LLMCallFailed

\* C1: whatever the collaborators do (LLM calls that fail in every attempt,
\* a vector search that raises, a blob fetch that fails, listings and
\* commands that time out, cannot be started or exit non-zero), no exception
\* leaves a step of analyze, analyze ends with exactly one Decision, and the
\* Decision has confidence 0 and an analysis that carries the error text
\* both when the except clause of analyze caught an exception and when every
\* LLM call of the run raised.
C1_AlwaysOneDecision ==
    /\ an.pc \in {"idle", "discover", "context", "plan", "exec", "synth",
                  "reformat", "done"}
    /\ an.escaped = NoExc
    /\ an.pc = "exec" => an.idx <= Len(an.commands)
    /\ an.pc # "done" => an.decision = <<>>
    /\ (an.pc = "done" /\ an.path # "direct") =>
          /\ Len(an.decision) = 1
          /\ an.caught # NoExc =>
                /\ Returned.confidence_score = 0
                /\ Returned.analysis = <<"Agent failed: ", an.caught>>
          /\ (an.path = "full" /\ an.llm_raised = an.llm_calls) =>
                /\ an.caught = AllAttemptsFailed
                /\ Returned.confidence_score = 0
                /\ Returned.analysis = <<"Agent failed: ", AllAttemptsFailed>>

\* a run in which embed, the planning call and the analysis call all raised
C1_Witness ==
    /\ an.pc = "done"
    /\ an.path = "full"
    /\ an.llm_calls = 3
    /\ an.llm_raised = 3
    /\ an.caught = AllAttemptsFailed
    /\ Len(an.decision) = 1
    /\ Returned.confidence_score = 0

\* cmd starts, after its leading whitespace, with one of the permitted
\* read-only prefixes
Whitelisted(cmd) ==
    \E i \in DOMAIN ALLOWED_COMMANDS :
        \E at \in 1..Len(cmd) :
            /\ \A j \in 1..(at - 1) : cmd[j] \in {" ", "\t", "\n"}
            /\ at + Len(ALLOWED_COMMANDS[i]) - 1 <= Len(cmd)
            /\ \A k \in 1..Len(ALLOWED_COMMANDS[i]) :
                   cmd[at + k - 1] = ALLOWED_COMMANDS[i][k]

\* C2: a proposed command that is not whitelisted never reaches the command
\* execution boundary: the plan the planner hands over holds whitelisted
\* commands only (none of the blocked entries), and every process the
\* executor starts and every block it reports is for a whitelisted command,
\* also when it is called with a list that was not validated.
C2_WhitelistEnforced ==
    /\ \A c \in an.rejected :
           /\ ~Whitelisted(c)
           /\ \A i \in 1..Len(executed) : executed[i].of # c
    /\ an.path = "full" =>
           \A i \in 1..Len(an.commands) :
               /\ Whitelisted(an.commands[i])
               /\ an.commands[i] \notin an.rejected
    /\ \A i \in 1..Len(executed) :
           executed[i].of = <<>> \/ Whitelisted(executed[i].of)
    /\ \A i \in 1..Len(an.diagnostics) : Whitelisted(an.diagnostics[i].cmd)
    /\ an.path = "direct" =>
           /\ Len(executed) <= Len(an.diagnostics)
           /\ Len(an.diagnostics) =
                  Cardinality({i \in 1..(an.idx - 1) : Whitelisted(an.commands[i])})

\* the LLM proposed "kubectl delete ..." and "kubectl top pods": only the
\* second was run
C2_Witness ==
    /\ an.path = "full"
    /\ an.pc = "synth"
    /\ an.rejected = {CmdDelete}
    /\ an.commands = <<CmdTop>>
    /\ Len(executed) = Len(DiscoveryKinds) + 1
    /\ executed[Len(executed)] = Launch(CmdTop, <<<<"k", "u", "b", "e", "c", "t", "l">>, <<"t", "o", "p">>, <<"p", "o", "d", "s">>>>)

ReadOnlySubcommands == {<<"g", "e", "t">>, <<"d", "e", "s", "c", "r", "i", "b", "e">>, <<"l", "o", "g", "s">>, <<"t", "o", "p">>}

\* C3: in a run of the pipeline, every kubectl process started at the command
\* execution boundary, directly or by the shell a piped command is handed
\* to, runs one of the subcommands get, describe, logs, top.
C3_OnlyReadOnlySubcommands ==
    an.path = "full" =>
    \A i \in 1..Len(executed) :
        \A k \in 1..Len(executed[i].argvs) :
            LET argv == executed[i].argvs[k]
            IN  (argv # <<>> /\ argv[1] = <<"k", "u", "b", "e", "c", "t", "l">>) =>
                    (Len(argv) >= 2 /\ argv[2] \in ReadOnlySubcommands)

\* the service name contains one of the ignored patterns
HasIgnoredPattern(service_name) ==
    \E i \in DOMAIN IGNORED_SERVICE_PATTERNS :
        \E at \in 1..Len(service_name) :
            /\ at + Len(IGNORED_SERVICE_PATTERNS[i]) - 1 <= Len(service_name)
            /\ \A k \in 1..Len(IGNORED_SERVICE_PATTERNS[i]) :
                   service_name[at + k - 1] = IGNORED_SERVICE_PATTERNS[i][k]

\* a step in which analyze is called with event e
Analyzes(e) ==
    /\ an.pc = "idle"
    /\ an'.pc # "idle"
    /\ an'.path # "direct"
    /\ an'.event = e

\* C4: when an event that is not ignored follows events of the same
\* (service, domain) pair, the latest full processing of which read the
\* clock at streak.at: if it is analyzed less than 300 s after that, analyze
\* returns at once with a Decision of confidence 0, without an LLM call and
\* without touching the limiter or the cache; if it is analyzed more than
\* 300 s after that, it runs the full pipeline (as the earlier event did), and
\* a full run that ends has made its LLM calls.
C4_DedupWindow ==
    [][ /\ \A e \in DedupEvents :
              ( /\ Analyzes(e)
                /\ ~HasIgnoredPattern(e.service_name)
                /\ streak.pair = Pair(e)
                /\ streak.at # NoValue ) =>
                  /\ wall - streak.at < 300 =>
                        /\ an'.pc = "done"
                        /\ an'.path = "cached"
                        /\ an'.decision[1].confidence_score = 0
                        /\ an'.llm_calls = 0
                        /\ UNCHANGED <<limiter, alert_cache, executed>>
                  /\ wall - streak.at > 300 =>
                        /\ an'.pc = "discover"
                        /\ an'.path = "full"
                        /\ alert_cache'[CacheKey(e)] = wall
        /\ an.path = "cached" => (an.pc = "done" /\ an.llm_calls = 0)
        /\ (an.path = "full" /\ an.pc = "done") => an.llm_calls >= 3
      ]_vars

\* after a full run, one later event of the pair was answered from the
\* cache and one, more than 300 s after the full run before it, was processed
\* in full again and has ended
C4_Witness ==
    /\ streak.skipped
    /\ streak.again
    /\ streak.gap > 300
    /\ an.path = "full"
    /\ an.pc = "done"
    /\ an.llm_calls >= 3

\* C5: analyze called with an event whose service name contains an ignored
\* pattern returns at once with a Decision of confidence 0 and no action,
\* has made no LLM call, has started no process, has left the limiter (its
\* tokens, refill time and cooldown) as it was and has left the dedup cache as
\* it was.
C5_IgnoredNoSideEffect ==
    [][ \A e \in DedupEvents :
            (Analyzes(e) /\ HasIgnoredPattern(e.service_name)) =>
                /\ an'.pc = "done"
                /\ an'.path = "ignored"
                /\ Len(an'.decision) = 1
                /\ an'.decision[1].confidence_score = 0
                /\ an'.decision[1].proposed_actions = <<>>
                /\ an'.llm_calls = 0
                /\ executed' = executed
                /\ alert_cache' = alert_cache
                /\ UNCHANGED limiter
      ]_vars

\* an ignored event was answered while the cache held an entry and tokens had
\* been taken from the bucket
C5_Witness ==
    /\ an.pc = "done"
    /\ an.path = "ignored"
    /\ an.event = LokiEvent
    /\ DOMAIN alert_cache # {}
    /\ tokens < max_tokens * TokenScale(rpm)
    /\ Returned.confidence_score = 0


(***************************************************************************)
(* Properties of the decisions analyze returns                             *)
(***************************************************************************)
\* C16 as stated: every Decision analyze returns has a confidence_score
\* within [0, 1] (counted in hundredths: 0..100).
C16_ConfidenceInUnitInterval ==
    (an.pc = "done" /\ Len(an.decision) = 1)
        => (0 <= Returned.confidence_score /\ Returned.confidence_score <= 100)

\* the action types the orchestrator knows
ActionTypes ==
    {<<"r", "e", "s", "t", "a", "r", "t", "_", "p", "o", "d">>, <<"s", "c", "a", "l", "e", "_", "d", "e", "p", "l", "o", "y", "m", "e", "n", "t">>, <<"r", "o", "l", "l", "i", "n", "g", "_", "r", "e", "s", "t", "a", "r", "t", "_", "d", "e", "p", "l", "o", "y", "m", "e", "n", "t">>,
     <<"r", "o", "l", "l", "b", "a", "c", "k", "_", "d", "e", "p", "l", "o", "y", "m", "e", "n", "t">>, <<"u", "n", "k", "n", "o", "w", "n">>}

\* C17 as stated: every Action of a returned Decision has an action_type in
\* {restart_pod, scale_deployment, rolling_restart_deployment,
\* rollback_deployment, unknown}.
C17_KnownActionTypes ==
    (an.pc = "done" /\ Len(an.decision) = 1)
        => \A i \in DOMAIN Returned.proposed_actions :
               Returned.proposed_actions[i].action_type \in ActionTypes

\* argv names the namespace it works in: "-n <ns>" or "--namespace <ns>"
NamespaceScoped(argv) ==
    \E i \in 1..(Len(argv) - 1) : argv[i] \in {<<"-", "n">>, <<"-", "-", "n", "a", "m", "e", "s", "p", "a", "c", "e">>}

\* C19 as stated: every kubectl invocation a run of the pipeline makes at the
\* command execution boundary (the discovery listings, the commands the LLM
\* planned, the fallback commands) carries an explicit namespace argument.
C19_ExplicitNamespace ==
    an.path = "full" =>
    \A i \in 1..Len(executed) :
        \A k \in 1..Len(executed[i].argvs) :
            LET argv == executed[i].argvs[k]
            IN  (argv # <<>> /\ argv[1] = <<"k", "u", "b", "e", "c", "t", "l">>) => NamespaceScoped(argv)

\* C14: the plan _get_diagnostic_commands hands over holds between 1 and 5
\* commands, each starting with a whitelisted prefix, and the executor's
\* re-validation rejects none of them: every command of the plan it has
\* visited has a block in the report.
C14_PlanBounded ==
    (an.path = "full" /\ an.pc \in {"exec", "synth"}) =>
        /\ 1 <= Len(an.commands) /\ Len(an.commands) <= 5
        /\ \A k \in 1..Len(an.commands) :
               \E i \in DOMAIN ALLOWED_COMMANDS :
                   StartsWith(an.commands[k], ALLOWED_COMMANDS[i])
        /\ Len(an.diagnostics) = an.idx - 1
        /\ \A k \in 1..Len(an.diagnostics) :
               an.diagnostics[k].cmd = an.commands[k]
        /\ an.pc = "synth" => an.idx = Len(an.commands) + 1

\* C14 witness: the LLM proposed six commands; the plan holds the first five
\* (the sixth, whitelisted too, was cut off), and the executor reported on
\* all five and started the two that could be split into arguments.
C14_Witness ==
    /\ an.path = "full"
    /\ an.pc = "synth"
    /\ an.rejected = {}
    /\ Len(an.commands) = 5
    /\ Len(an.diagnostics) = 5
    /\ an.commands[5] = CmdGetPods
    /\ Len(executed) = Len(DiscoveryKinds) + 2

\* the Decision of the else branch of _parse_decision for the response raw
ParseErrorDecision(e, raw) ==
    Decision(1, e, <<"Parse Error. Raw: ">> \o SubSeq(raw, 1, Min(Len(raw), 500)),
             0, <<>>)

\* C15: analyze makes the corrective generate call exactly when nothing was
\* extracted from the final response, and makes it once (it is the fourth
\* and last LLM call of the run); when that call raised or nothing was
\* extracted from its response either, no exception is raised and analyze
\* returns the Decision with confidence 0, no proposed actions and the
\* analysis "Parse Error. Raw: " followed by the first 500 characters of the
\* final response.
C15_OneCorrectiveCall ==
    /\ an.llm_calls <= 4
    /\ an.pc = "reformat" =>
          /\ ~Truthy(ExtractJson(an.llm_output))
          /\ an.corrective = "none"
          /\ an.llm_calls = 3
    /\ an.corrective # "none" => (an.pc = "done" /\ an.llm_calls = 4)
    /\ (an.pc = "done" /\ an.llm_calls = 4) => an.corrective # "none"
    /\ an.corrective \in {"raised", "empty"} =>
          /\ an.caught = NoExc
          /\ an.escaped = NoExc
          /\ an.decision = <<ParseErrorDecision(an.event, an.llm_output.raw)>>
          /\ Len(Returned.analysis) <= 500 + 1

\* C15 witness: the final response was prose of 501 characters, the
\* corrective call raised, and the Decision quotes 500 of them.
C15_Witness ==
    /\ an.pc = "done"
    /\ an.corrective = "raised"
    /\ an.llm_output = LongGarbage
    /\ Len(Returned.analysis) = 500 + 1
    /\ Returned.confidence_score = 0
    /\ Returned.proposed_actions = <<>>

\* C18 as stated: a failure while processing an incident does not stop a
\* later incident from running the full pipeline, also when the later one has
\* the same (service, domain) pair and arrives within the dedup TTL: an
\* event that is not ignored and follows a processing of its pair that ended
\* in the fallback Decision is processed in full.
C18_FailureDoesNotBlock ==
    (/\ an.pc = "done"
     /\ ~HasIgnoredPattern(an.event.service_name)
     /\ streak.pair = Pair(an.event)
     /\ streak.failed)
        => an.path = "full"

(***************************************************************************)
(* Properties of LLMProvider and of the limiter shared by its callers      *)
(***************************************************************************)
\* C11 as stated: generate and embed each invoke the provider at most
\* max_retries times per call, return at the first successful attempt, and
\* raise only after exactly max_retries attempts have failed, with a terminal
\* error that carries the cause of the last failure.
C11_RetryContract ==
    \A w \in Workers :
        LET me == workers[w]
        IN  /\ me.invoked <= MaxRetries
            /\ me.returned => (me.pc = "done" /\ me.invoked = me.attempt + 1
                               /\ me.terminal = NoTerminal)
            /\ (me.pc = "done" /\ ~me.returned) =>
                  /\ me.invoked = MaxRetries
                  /\ me.failure # NoExc
                  /\ me.terminal.cause = me.failure

C12_CallsTerminate ==
    \A w \in Workers : (workers[w].pc # "idle") ~> (workers[w].pc = "done")

\* C21: in every attempt of generate and embed the call of the provider comes
\* after an acquire() of that attempt that returned True: on an enabled limiter
\* a thread has invoked the provider (or is invoking it) exactly as many times
\* as its acquire() calls consumed a token, and no acquire() grants while the
\* cooldown of the limiter is active.
C21_AcquireBeforeCall ==
    \A w \in Workers :
        LET me == workers[w]
        IN  /\ enabled =>
                  me.invoked + (IF me.pc = "call" THEN 1 ELSE 0) = me.took
            /\ ~me.hot

\* C21 witness: a thread is in its second provider call after a throttled
\* first attempt, having waited out the cooldown that was reported.
C21_Witness ==
    \E w \in Workers :
        /\ enabled
        /\ workers[w].pc = "call"
        /\ workers[w].attempt = 1
        /\ workers[w].took = 2
        /\ workers[w].last_error = RateLimitError
        /\ retry_after_until # NoDeadline
        /\ mono >= retry_after_until

\* C22 as stated: when attempt a of generate or embed fails as throttled, the
\* client reports the extracted hint (or none) to the limiter and then sleeps
\* min(hint, 120) seconds if a hint was extracted, else min(10 * 2^a, 120).
C22_ThrottledBackoff ==
    \A w \in Workers :
        LET me == workers[w]
        IN  (me.pc = "backoff" /\ me.failure = RateLimitError) =>
               /\ enabled => me.reported = me.failed_at + ReportWait(me.hint)
               /\ me.wake = me.failed_at
                      + (IF me.hint # NoValue
                         THEN Min(me.hint, 120)
                         ELSE Min(10 * (2 ^ me.attempt), 120))

\* C22 amended: the hint decides the sleep only when it is not zero; with no
\* hint or a hint of 0 the client sleeps min(10 * 2^a, 120) seconds (and the
\* limiter, given 0, cools down for its default 60 seconds).
C22_ThrottledBackoffNonZeroHint ==
    \A w \in Workers :
        LET me == workers[w]
        IN  (me.pc = "backoff" /\ me.failure = RateLimitError) =>
               /\ enabled => me.reported = me.failed_at + ReportWait(me.hint)
               /\ me.wake = me.failed_at
                      + (IF me.hint # NoValue /\ me.hint # 0
                         THEN Min(me.hint, 120)
                         ELSE Min(10 * (2 ^ me.attempt), 120))

\* C22 witness: a second attempt was throttled with a hint above the cap: the
\* limiter cools down for the hint, the thread sleeps 120 seconds.
C22_Witness ==
    \E w \in Workers :
        /\ enabled
        /\ workers[w].pc = "backoff"
        /\ workers[w].failure = RateLimitError
        /\ workers[w].attempt = 1
        /\ workers[w].hint = 150
        /\ workers[w].wake = workers[w].failed_at + 120
        /\ retry_after_until = workers[w].failed_at + 150
        /\ tokens = 0

(***************************************************************************)
(* Properties of the planner's fallback, the executor's report and the     *)
(* identifiers of a Decision                                                *)
(***************************************************************************)
\* the minimal plan for a namespace: describe and tail-logs of the first
\* matched pod, else of the first discovered pod, then the recent events
MinimalPlan(namespace, resources, matching) ==
    LET target == IF matching.pods # <<>> THEN <<matching.pods[1]>>
                  ELSE IF resources.pods # <<>> THEN <<resources.pods[1]>>
                  ELSE <<>>
        for_target ==
            IF target = <<>> THEN <<>>
            ELSE << <<"k", "u", "b", "e", "c", "t", "l", " ", "d", "e", "s", "c", "r", "i", "b", "e", " ", "p", "o", "d", " ">> \o target[1] \o <<" ", "-", "n", " ">> \o namespace,
                    <<"k", "u", "b", "e", "c", "t", "l", " ", "l", "o", "g", "s", " ">> \o target[1] \o <<" ", "-", "n", " ">> \o namespace
                        \o <<" ", "-", "-", "t", "a", "i", "l", "=", "1", "0", "0">> >>
    IN  for_target \o << <<"k", "u", "b", "e", "c", "t", "l", " ", "g", "e", "t", " ", "e", "v", "e", "n", "t", "s", " ", "-", "n", " ">> \o namespace
                            \o <<" ", "-", "-", "s", "o", "r", "t", "-", "b", "y", "=", ".", "l", "a", "s", "t", "T", "i", "m", "e", "s", "t", "a", "m", "p", " ", "|", " ", "t", "a", "i", "l", " ", "-", "2", "0">> >>

\* C23 as stated: when no proposed command survives validation the planner
\* returns the minimal plan: describe and tail-logs for the first matched
\* resource or, when nothing matched, for the first discovered one, followed
\* by the recent-events listing.
C23_FallbackPlan ==
    [][(an.pc = "plan" /\ an'.pc \in {"exec", "synth"} /\ an'.fell_back)
          => an'.commands = MinimalPlan(an.namespace, an.resources, an.matching)]_vars

\* the commands _run_diagnostics has gone through, and those of them that
\* pass its re-check against the whitelist
Visited(a) == SubSeq(a.commands, 1, a.idx - 1)

PassesRecheck(cmd) == IsAllowedCommand(Strip(cmd))

\* a block that records a failure of its command
RecordsFailure(block) == Head(block.body) = "Command failed: "

\* the blocks follow the whitelisted commands one to one, in input order,
\* and the report is made of them
BlocksFollowCommands(a) ==
    LET kept == SelectSeq(Visited(a), PassesRecheck)
    IN  /\ Len(a.diagnostics) = Len(kept)
        /\ Len(a.outcomes) = Len(kept)
        /\ \A k \in 1..Len(kept) : a.diagnostics[k].cmd = kept[k]
        /\ a.idx > Len(a.commands) => a.report = Report(a.diagnostics)

InRunDiagnostics(a) ==
    \/ a.path = "full" /\ a.pc \in {"exec", "synth"}
    \/ a.path = "direct" /\ a.pc \in {"exec", "done"}

\* C24 as stated: _run_diagnostics never aborts the batch: every whitelisted
\* command yields exactly one labeled block of the report, in input order,
\* whatever its outcome, and a non-zero exit is recorded as a failure, not as
\* success or as no output.
C24_OneBlockPerCommand ==
    InRunDiagnostics(an) =>
        /\ BlocksFollowCommands(an)
        /\ \A k \in 1..Len(an.diagnostics) :
               (an.outcomes[k].kind = "exit" /\ an.outcomes[k].returncode # 0)
                   => RecordsFailure(an.diagnostics[k])

\* C24 amended: a non-zero exit is recorded as a failure when the command
\* wrote to stderr, and as "(No output)" when it did not.
C24_OneBlockPerCommandStderr ==
    InRunDiagnostics(an) =>
        /\ BlocksFollowCommands(an)
        /\ \A k \in 1..Len(an.diagnostics) :
               (an.outcomes[k].kind = "exit" /\ an.outcomes[k].returncode # 0)
                   => IF an.outcomes[k].stderr # <<>>
                      THEN RecordsFailure(an.diagnostics[k])
                      ELSE an.diagnostics[k].body = <<"(No output)">>

\* C24 witness: of four commands the first was blocked by the re-check, the
\* second timed out, the third could not be split and the fourth exited
\* non-zero with a message: the report has three blocks.
C24_Witness ==
    /\ an.path = "direct"
    /\ an.pc = "done"
    /\ Len(an.commands) = 4
    /\ Len(an.diagnostics) = 3
    /\ an.outcomes[1] = TimeoutExpired
    /\ an.outcomes[2] = NotRun
    /\ an.outcomes[3].returncode = 1
    /\ RecordsFailure(an.diagnostics[3])

\* C25: every Decision analyze returns has the event_id of its event as
\* incident_id, every Action of it carries the decision_id of the Decision,
\* and the action_ids of a Decision are pairwise distinct.
C25_DecisionIdentifiers ==
    (an.pc = "done" /\ an.decision # <<>>) =>
        LET d == an.decision[1]
            acts == d.proposed_actions
        IN  /\ d.incident_id = an.event.event_id
            /\ \A i \in 1..Len(acts) : acts[i].decision_id = d.decision_id
            /\ \A i, j \in 1..Len(acts) :
                   i # j => acts[i].action_id # acts[j].action_id

\* C25 witness: analyze returned a Decision with two actions for the event
\* evt-web-2.
C25_Witness ==
    /\ an.pc = "done"
    /\ an.path = "full"
    /\ an.decision # <<>>
    /\ an.event.event_id = "evt-web-2"
    /\ Len(an.decision[1].proposed_actions) = 2
    /\ an.decision[1].incident_id = "evt-web-2"

(***************************************************************************)
(* Properties of the dedup cache                                           *)
(***************************************************************************)
\* C26 as stated: after every analyze call, dedup short-circuits included,
\* the cache holds no entry whose timestamp is older than 2 * TTL (600 s) at
\* the time of the call.
C26_PurgedOnEachAccess ==
    [][(an.pc = "idle" /\ an'.pc # "idle" /\ an'.path # "direct")
          => \A k \in DOMAIN alert_cache' :
                 wall - alert_cache'[k] <= 2 * CacheTTL]_vars

\* C27 as stated: dedup entries are keyed by the pair (service_name, domain):
\* an event is answered from the cache only on an entry that an event of the
\* same pair wrote, whatever the service-name and domain strings are.
C27_KeyedByPair ==
    (an.pc = "done" /\ an.path = "cached") =>
        streak.owners[CacheKey(an.event)] = Pair(an.event)

\* C28 as stated: when several threads call analyze at once with events of
\* one pair within the TTL, at most one of them runs the full pipeline (the
\* others get the recently-processed Decision), and the concurrent updates
\* and purges of the cache never lose the fresh entry of another key: once
\* the threads are past the cache, every key written less than a TTL ago is
\* in the cache.
C28_ConcurrentDedup ==
    /\ \A t, u \in Callers :
          (t # u /\ callers[t].path = "full" /\ callers[u].path = "full"
             /\ Pair(callers[t].event) = Pair(callers[u].event))
          => (callers[t].now - callers[u].now >= CacheTTL
              \/ callers[u].now - callers[t].now >= CacheTTL)
    /\ (\A t \in Callers : callers[t].pc \in {"idle", "full", "done"})
          => \A k \in DOMAIN stamps :
                 wall - stamps[k] < CacheTTL => k \in DOMAIN alert_cache

(***************************************************************************)
(* Properties of _extract_json                                             *)
(***************************************************************************)
\* the first span delimited by the opening and the closing character: from
\* the first opening character to the closing character that matches it
FirstSpan(s, opening, closing) ==
    LET opens == {i \in 1..Len(s) : s[i] = opening}
        a == SetMin(opens)
        Depth(b) == Cardinality({i \in a..b : s[i] = opening})
                       - Cardinality({i \in a..b : s[i] = closing})
        ends == {b \in (a + 1)..Len(s) : s[b] = closing /\ Depth(b) = 0}
    IN  IF opens = {} THEN JFail
        ELSE IF ends = {} THEN JFail
        ELSE JsonLoads(SubSeq(s, a, SetMin(ends)))

\* direct parse, fenced code block, first brace-delimited span, first
\* bracket-delimited span
SpecifiedMethods(s) ==
    <<JsonLoads(Strip(s)), FenceContents(s),
      FirstSpan(s, "{", "}"), FirstSpan(s, "[", "]")>>

\* the result of the first method that yields valid JSON, else the empty
\* result
FirstValid(methods) ==
    LET good == {i \in 1..Len(methods) : methods[i].t # "fail"}
    IN  IF good = {} THEN EmptyDict ELSE methods[SetMin(good)]

\* C31: _extract_json returns what the first of direct parse, fenced code
\* block, first brace-delimited span and first bracket-delimited span that
\* is valid JSON yields, and the empty result when none is or the text is
\* empty; it never raises.
C31_FirstValidMethod ==
    (an.pc = "done" /\ an.path = "extract") =>
        /\ Len(an.extracted) = 1
        /\ an.extracted[1] = FirstValid(SpecifiedMethods(an.llm_output.raw))

(***************************************************************************)
(* Properties of the agent, continued                                      *)
(***************************************************************************)
\* C32: a dedup short-circuit leaves the cache as it is, so the window of a
\* key starts at its latest full processing (stamps): an event of the key
\* analyzed at least the TTL after that is processed in full, however many
\* events of the key were short-circuited since, and an event of the key is
\* processed in full only when at least the TTL has passed since the full
\* processing before it.
C32_WindowAnchoredAtFullRun ==
    [][ \A e \in DedupEvents :
          ( /\ Analyzes(e)
            /\ ~HasIgnoredPattern(e.service_name) ) =>
              /\ an'.path = "cached" => alert_cache' = alert_cache
              /\ CacheKey(e) \in DOMAIN stamps =>
                    (an'.path = "full" <=> wall - stamps[CacheKey(e)] >= CacheTTL)
      ]_vars

\* an event was processed in full exactly the TTL after the full processing
\* of its pair before it, and an event of the pair was short-circuited in
\* between
C32_Witness ==
    /\ streak.skipped
    /\ streak.again
    /\ streak.gap = CacheTTL
    /\ an.path = "full"
    /\ an.pc = "done"

\* the call ended on a short-circuit or degraded path: the event was ignored
\* or recently processed, the except clause of analyze caught an exception,
\* or nothing was extracted from the response and from the corrective one
Degraded ==
    \/ an.path \in {"ignored", "cached"}
    \/ an.path = "full" /\ an.caught # NoExc
    \/ an.path = "full" /\ an.corrective \in {"raised", "empty"}

\* C34: a Decision returned on a short-circuit or degraded path (ignored,
\* recently processed, fallback after an exception, parse error) has
\* confidence 0 and no proposed action.
C34_DegradedDecisionIsInert ==
    (an.pc = "done" /\ Degraded) =>
        /\ Len(an.decision) = 1
        /\ an.decision[1].confidence_score = 0
        /\ an.decision[1].proposed_actions = <<>>

\* the response proposed an action that is not an object, the loop over the
\* proposed actions raised, and analyze returned the fallback Decision
C34_Witness ==
    /\ an.pc = "done"
    /\ an.path = "full"
    /\ an.caught = AttributeError
    /\ an.llm_calls = 3
    /\ an.decision[1].confidence_score = 0
    /\ an.decision[1].proposed_actions = <<>>

\* C36: one call of analyze makes at most one call of embed and at most
\* three calls of generate, and these make at most 4 * max_retries calls of
\* the provider; a call that ends as ignored or recently processed makes
\* none.
C36_CallBudget ==
    /\ an.embeds <= 1
    /\ an.llm_calls - an.embeds <= 3
    /\ an.invoked <= 4 * MaxRetries
    /\ an.path \in {"ignored", "cached"} =>
          (an.llm_calls = 0 /\ an.invoked = 0 /\ an.embeds = 0)

\* a call of analyze has ended after embed, planning, synthesis and the
\* corrective call, each of which needed every attempt it had
C36_Witness ==
    /\ an.pc = "done"
    /\ an.path = "full"
    /\ an.embeds = 1
    /\ an.llm_calls = 4
    /\ an.invoked = 4 * MaxRetries

\* a is b with some of its entries left out
RECURSIVE IsSubsequence(_, _)
IsSubsequence(a, b) ==
    IF a = <<>> THEN TRUE
    ELSE IF b = <<>> THEN FALSE
    ELSE IF Head(a) = Head(b) THEN IsSubsequence(Tail(a), Tail(b))
    ELSE IsSubsequence(a, Tail(b))

\* the response is a JSON object whose "commands" is a list of strings
IsProposal(text) ==
    LET data == ExtractJson(text)
    IN  /\ data.t = "dict"
        /\ Get(data, "commands", JNull).t = "list"
        /\ \A i \in 1..Len(Get(data, "commands", JNull).v) :
              Get(data, "commands", JNull).v[i].t = "str"

\* the commands of a proposal, stripped
Proposed(text) ==
    LET list == Get(ExtractJson(text), "commands", JNull).v
    IN  [i \in 1..Len(list) |-> Strip(list[i].v)]

\* C37: the planner looks at the first five entries of the LLM's list only:
\* the approved commands are whitelisted entries among the first five, in
\* their order, and when none of the first five is whitelisted the plan is
\* the fallback plan, whatever the later entries are.
C37_TruncateBeforeValidate ==
    [][\A failing \in Failing : \A text \in PlanTexts :
          (PlanStep(failing, text) /\ failing < MaxRetries /\ IsProposal(text)) =>
              LET first == Take(Proposed(text), CommandLimit)
              IN  IF \E i \in 1..Len(first) : IsAllowedCommand(first[i])
                  THEN /\ IsSubsequence(an'.commands, first)
                       /\ \A k \in 1..Len(an'.commands) :
                             IsAllowedCommand(an'.commands[k])
                  ELSE an'.commands = GenerateFallbackCommands(
                                          an.namespace, an.resources, an.matching)]_vars

\* the plan is the fallback plan after a proposal whose first five entries
\* were all blocked and which had a whitelisted entry after them
C37_Witness ==
    /\ an.pc = "exec"
    /\ an.llm_raised = 0
    /\ an.fell_back
    /\ Cardinality(an.rejected) = CommandLimit
    /\ \E j \in an.beyond : j.t = "str" /\ IsAllowedCommand(Strip(j.v))
====
